---- MODULE Spec2Model ----
(***************************************************************************)
(* api-registry-service: the spec cache (fetchSpec, specsCache), the       *)
(* aggregation routes (GET /openapi/:service, GET /llm-context,            *)
(* POST /refresh/:service) and the MCP tools get_all_endpoints and         *)
(* search_endpoints, as a state machine.                                   *)
(*                                                                         *)
(* Node runs one handler at a time: a handler runs until it awaits         *)
(* outbound I/O.  One action is one such run: the synchronous start of a   *)
(* request (every cache lookup and every fetch it issues), or the          *)
(* continuation that a resolved fetch resumes.                             *)
(*                                                                         *)
(* Text that the code lowercases, uppercases or searches is a sequence of  *)
(* one-character strings; text that is only compared is a TLA+ string.     *)
(***************************************************************************)
EXTENDS Integers, Sequences, FiniteSets, TLC

\* ------------------------------------------------------------------ bounds

\* The clock is read at whole ticks; MaxTicks ticks pass at most.
MaxTicks == 2
\* Requests that may be in progress at the same time.
MaxReqs == 2
\* Requests that arrive in one run.
MaxArrivals == 2

\* ------------------------------------------------------- program constants

CACHE_TTL_MS == 300000

\* Half a TTL: entry ages of 0, TTL/2, TTL and 3*TTL/2 all occur.
TickMs == CACHE_TTL_MS \div 2

\* ------------------------------------------------------------------ text

Uppers == << "A","B","C","D","E","F","G","H","I","J","K","L","M",
             "N","O","P","Q","R","S","T","U","V","W","X","Y","Z" >>
Lowers == << "a","b","c","d","e","f","g","h","i","j","k","l","m",
             "n","o","p","q","r","s","t","u","v","w","x","y","z" >>

LowerChar(c) ==
    IF \E k \in 1..26 : Uppers[k] = c
    THEN Lowers[CHOOSE k \in 1..26 : Uppers[k] = c]
    ELSE c

UpperChar(c) ==
    IF \E k \in 1..26 : Lowers[k] = c
    THEN Uppers[CHOOSE k \in 1..26 : Lowers[k] = c]
    ELSE c

toLowerCase(s) == [i \in 1..Len(s) |-> LowerChar(s[i])]

toUpperCase(s) == [i \in 1..Len(s) |-> UpperChar(s[i])]

\* String.prototype.includes
includes(hay, needle) ==
    \E i \in 0..(Len(hay) - Len(needle)) :
        SubSeq(hay, i + 1, i + Len(needle)) = needle

RECURSIVE join(_, _)
\* Array.prototype.join
join(parts, sep) ==
    IF Len(parts) = 0 THEN << >>
    ELSE IF Len(parts) = 1 THEN parts[1]
    ELSE parts[1] \o sep \o join(Tail(parts), sep)

RECURSIVE flat(_)
\* Array.prototype.flat of a sequence of sequences
flat(seqs) ==
    IF Len(seqs) = 0 THEN << >> ELSE seqs[1] \o flat(Tail(seqs))

\* ------------------------------------------------------------- the directory

\* SERVICES = loadServices(): name -> base URL, in Object.entries order.
SERVICES ==
    << [name |-> "svc-a", url |-> "https://a.example"],
       [name |-> "svc-b", url |-> "https://b.example"] >>

ServiceNames == { SERVICES[i].name : i \in 1..Len(SERVICES) }

\* A name a client may send that SERVICES has no entry for.
UnknownService == "svc-x"

RequestNames == ServiceNames \cup { UnknownService }

\* SERVICES is an object literal, so SERVICES[service] also finds what
\* Object.prototype holds: a function, which is truthy and no URL.
InheritedNames == { "constructor" }

\* Every name a client may send.
LookupNames == RequestNames \cup InheritedNames

\* The names fetchSpec can be called with.
TaskNames == ServiceNames \cup InheritedNames

\* SERVICES[service] is truthy: the guard every lookup by name tests.
hasService(service) == service \in ServiceNames \cup InheritedNames

urlOf(service) ==
    SERVICES[CHOOSE i \in 1..Len(SERVICES) : SERVICES[i].name = service].url

\* ------------------------------------------------- the documents services serve

\* The parsed body of a response is named by an id; Null is the JSON value null.
Null == "null"
Undefined == "undefined"

NoInfo == [title |-> Undefined, description |-> Undefined]

\* One method entry of a path entry.  A missing summary or description is the
\* empty text (either is falsy in the || chain that reads them); bodyProps is
\* Object.keys of requestBody.content["application/json"].schema.properties,
\* empty when any link of that chain is missing.
Details(summary, description, parameters, bodyProps) ==
    [summary |-> summary, description |-> description,
     parameters |-> parameters, bodyProps |-> bodyProps]

DocA ==
    [info |-> [title |-> "A API", description |-> Undefined],
     paths |-> <<
       [path |-> << "/", "c", "a", "m", "p" >>,
        methods |-> <<
          [method |-> << "g", "e", "t" >>,
           details |-> Details(<< "L", "i", "s", "t" >>, << >>,
              << [name |-> "id", in |-> "header", required |-> Undefined, type |-> "string"],
                 [name |-> "limit", in |-> "query", required |-> Undefined, type |-> "integer"] >>,
              << >>)],
          [method |-> << "x", "-", "e", "x", "t" >>,
           details |-> Details(<< "c", "a", "m", "p" >>, << >>, << >>, << >>)],
          [method |-> << "p", "o", "s", "t" >>,
           details |-> Details(<< >>, << "M", "a", "k", "e" >>, << >>,
              << << "n", "a", "m", "e" >>, << "b", "r", "a", "n", "d", "U", "r", "l" >> >>)] >>],
       [path |-> << "/", "u", "s", "e", "r" >>,
        methods |-> <<
          [method |-> << "d", "e", "l", "e", "t", "e" >>,
           details |-> Details(<< "D", "r", "o", "p", " ", "c", "a", "m", "p" >>, << >>, << >>, << >>)] >>] >>]

DocB ==
    [info |-> NoInfo,
     paths |-> <<
       [path |-> << "/", "b", "/", "C", "a", "m", "p" >>,
        methods |-> <<
          [method |-> << "p", "u", "t" >>,
           details |-> Details(<< >>, << >>, << >>, << << "c", "a", "m", "p", "I", "d" >> >>)] >>],
       [path |-> << "/", "b", "/", "x" >>,
        methods |-> <<
          [method |-> << "G", "E", "T" >>,
           details |-> Details(<< "c", "a", "m", "p" >>, << >>, << >>, << >>)],
          [method |-> << "p", "a", "t", "c", "h" >>,
           details |-> Details(<< "E", "d", "i", "t" >>, << >>, << >>, << >>)] >>] >>]

\* A document that is valid JSON and no OpenAPI document: the value of its one
\* path is null.
DocBad ==
    [info |-> NoInfo,
     paths |-> << [path |-> << "/", "x" >>, is |-> "null"] >>]

DocIds == { "docA", "docB", "docBad" }

DocBody(id) ==
    IF id = "docA" THEN DocA ELSE IF id = "docBad" THEN DocBad ELSE DocB

\* The document each service publishes at {baseUrl}/openapi.json.
RemoteDoc(service) == IF service = "svc-a" THEN "docA" ELSE "docB"

\* The keyword a client searches for.
Queries == { << "C", "a", "m", "p" >> }

\* ----------------------------------------------------- fetchSpec, the pure parts

\* How one GET {url}/openapi.json can end.
\*   ok        a 2xx response whose body parses to the service's document
\*   nullBody  a 2xx response whose body parses to null
\*   http500   a response with response.ok false
\*   timeout   fetch rejects: AbortSignal.timeout, or a network failure
Outcomes == { "ok", "nullBody", "http500", "timeout" }

\*   malformed a 2xx response whose body parses to DocBad
MalformedOutcomes == { "malformed" }

\* fetch rejects at once when `${url}/openapi.json` is no URL, as it is for a
\* url that is a function.
OutcomesOf(name) ==
    IF name \in ServiceNames THEN Outcomes \cup MalformedOutcomes
    ELSE { "invalidUrl" }

FailureOutcomes == { "http500", "timeout", "invalidUrl" }

\* err.message of what the try block throws.
errorMessage(outcome) ==
    IF outcome = "http500" THEN "HTTP 500"
    ELSE IF outcome = "invalidUrl" THEN "Failed to parse URL"
    ELSE "The operation was aborted due to timeout"

\* The guard of fetchSpec's early return: cached && Date.now() - cached.fetchedAt < TTL.
\* cache is specsCache, a function whose domain is its keys.
\* (First two variants of it: comparing with <=, and skipping an error entry.)
cacheFreshWrongCompare(cache, name, t) ==
    name \in DOMAIN cache /\ t - cache[name].fetchedAt <= CACHE_TTL_MS

cacheFreshRetriesErrors(cache, name, t) ==
    /\ name \in DOMAIN cache
    /\ t - cache[name].fetchedAt < CACHE_TTL_MS
    /\ cache[name].error = Undefined

cacheFresh(cache, name, t) ==
    name \in DOMAIN cache /\ t - cache[name].fetchedAt < CACHE_TTL_MS

\* The entry fetchSpec builds once the fetch has settled: the end of the try
\* block, or the catch block.
\* (First a variant whose catch block does not read the clock.)
settledEntryKeepsStaleTime(name, outcome, t) ==
    IF outcome \in FailureOutcomes
    THEN [spec |-> Null, fetchedAt |-> 0, error |-> errorMessage(outcome)]
    ELSE [spec |-> IF outcome = "ok" THEN RemoteDoc(name)
                   ELSE IF outcome \in MalformedOutcomes THEN "docBad" ELSE Null,
          fetchedAt |-> t, error |-> Undefined]

settledEntry(name, outcome, t) ==
    IF outcome \in FailureOutcomes
    THEN [spec |-> Null, fetchedAt |-> t, error |-> errorMessage(outcome)]
    ELSE [spec |-> IF outcome = "ok" THEN RemoteDoc(name)
                   ELSE IF outcome \in MalformedOutcomes THEN "docBad" ELSE Null,
          fetchedAt |-> t, error |-> Undefined]

\* (First a variant that stores no failure and drops the entry instead.)
cacheSetDropsFailure(cache, name, entry) ==
    IF entry.error # Undefined
    THEN [k \in DOMAIN cache \ { name } |-> cache[k]]
    ELSE [k \in DOMAIN cache \cup { name } |-> IF k = name THEN entry ELSE cache[k]]

\* (Then a variant that merges the entry into the one already stored, whose
\* error stays when the new entry has none.)
cacheSetKeepsError(cache, name, entry) ==
    [k \in DOMAIN cache \cup { name } |->
        IF k # name THEN cache[k]
        ELSE IF name \in DOMAIN cache /\ entry.error = Undefined
        THEN [entry EXCEPT !.error = cache[name].error]
        ELSE entry]

\* (Then a variant that keeps the entry already stored.)
cacheSetKeepsFirst(cache, name, entry) ==
    [k \in DOMAIN cache \cup { name } |->
        IF k = name /\ name \notin DOMAIN cache THEN entry ELSE cache[k]]

\* specsCache.set(name, entry)
cacheSet(cache, name, entry) ==
    [k \in DOMAIN cache \cup { name } |-> IF k = name THEN entry ELSE cache[k]]

\* specsCache.delete(name)
\* (First a variant that deletes every entry.)
cacheDeleteClears(cache, name) ==
    [k \in { } |-> cache[k]]

cacheDelete(cache, name) ==
    [k \in DOMAIN cache \ { name } |-> cache[k]]

\* --------------------------------------------------------------- summarizing

RecognizedMethods ==
    { << "g", "e", "t" >>, << "p", "o", "s", "t" >>, << "p", "u", "t" >>,
      << "p", "a", "t", "c", "h" >>, << "d", "e", "l", "e", "t", "e" >> }

\* The filter of the summarizer: the key of a path entry is one of the five
\* names, compared as it is written.
isRecognized(method) == method \in RecognizedMethods

\* A document need not have the shape the code casts it to.  Where a value is
\* not the object (or array) expected, the entry that holds it says what it is
\* instead: null, a string or a number.
\*   doc.pathsIs           what spec.paths is
\*   pathEntry.is          what the value of a path is
\*   methodEntry.is        what the value of a method key is
\*   details.parametersIs  what details.parameters is ("object": not an array)
\*   parameter.is          what an element of parameters is
shapeOf(entry) == IF "is" \in DOMAIN entry THEN entry.is ELSE "object"

pathsShape(doc) == IF "pathsIs" \in DOMAIN doc THEN doc.pathsIs ELSE "object"

parametersShape(details) ==
    IF "parametersIs" \in DOMAIN details THEN details.parametersIs ELSE "array"

\* Object.entries(spec.paths || {}): nothing for null and for a number; the
\* entries of a string are its characters, which hold no method.
pathEntries(doc) == IF pathsShape(doc) = "object" THEN doc.paths ELSE << >>

\* Object.entries(methods), for a path entry that is not null.
methodEntries(pathEntry) ==
    IF shapeOf(pathEntry) = "object" THEN pathEntry.methods ELSE << >>

\* details, read as the code reads it: every property of a string or a number
\* is undefined.
detailsOf(m) ==
    IF shapeOf(m) = "object" THEN m.details
    ELSE [summary |-> << >>, description |-> << >>, parameters |-> << >>,
          bodyProps |-> << >>]

\* The summarizing callback throws a TypeError: Object.entries(null) for a
\* path entry, a property read of null for a method entry or a parameter, and
\* .filter of what is not an array for parameters.
raisesTypeError(doc) ==
    \E i \in 1..Len(pathEntries(doc)) :
        LET pathEntry == pathEntries(doc)[i]
        IN  \/ shapeOf(pathEntry) = "null"
            \/ \E j \in 1..Len(methodEntries(pathEntry)) :
                   LET m == methodEntries(pathEntry)[j]
                   IN  /\ isRecognized(m.method)
                       /\ \/ shapeOf(m) = "null"
                          \/ /\ shapeOf(m) = "object"
                             /\ \/ parametersShape(m.details) \in { "object", "string" }
                                \/ /\ parametersShape(m.details) = "array"
                                   /\ \E k \in 1..Len(m.details.parameters) :
                                          shapeOf(m.details.parameters[k]) = "null"

\* result.error || !result.spec
failedResult(result) == result.error # Undefined \/ result.spec = Null

\* details.summary || details.description || ""
summaryOf(details) ==
    IF details.summary # << >> THEN details.summary ELSE details.description

\* (First a variant that keeps the header parameters.)
paramsOfKeepsHeaders(details) ==
    LET declared == IF parametersShape(details) = "array"
                    THEN details.parameters ELSE << >>
    IN  [k \in 1..Len(declared) |->
            [name |-> declared[k].name, in |-> declared[k].in,
             required |-> (declared[k].required = "true"), type |-> declared[k].type]]

\* (details.parameters || []).filter(p => p.in !== "header").map(...)
paramsOf(details) ==
    LET declared == IF parametersShape(details) = "array"
                    THEN details.parameters ELSE << >>
        kept == SelectSeq(declared, LAMBDA p : p.in # "header")
    IN  [k \in 1..Len(kept) |->
            [name |-> kept[k].name, in |-> kept[k].in,
             required |-> (kept[k].required = "true"), type |-> kept[k].type]]

\* One element of the endpoints list.  An empty params or bodyFields stands
\* for the undefined the code emits instead of an empty list.
endpointOf(path, m) ==
    [method |-> toUpperCase(m.method), path |-> path,
     summary |-> summaryOf(detailsOf(m)),
     params |-> paramsOf(detailsOf(m)),
     bodyFields |-> detailsOf(m).bodyProps]

\* Object.entries(spec.paths || {}).flatMap(... .filter(...).map(...))
endpointsOf(doc) ==
    flat([i \in 1..Len(pathEntries(doc)) |->
        LET ms == SelectSeq(methodEntries(pathEntries(doc)[i]),
                            LAMBDA m : isRecognized(m.method))
        IN  [j \in 1..Len(ms) |-> endpointOf(pathEntries(doc)[i].path, ms[j])]])

\* The summarizing callback applied to a document: the endpoints it returns,
\* or raised when it throws.
summarize(doc) ==
    IF raisesTypeError(doc) THEN [raised |-> TRUE, endpoints |-> << >>]
    ELSE [raised |-> FALSE, endpoints |-> endpointsOf(doc)]

\* What the per-service callback of GET /llm-context and of get_all_endpoints
\* returns for one service, given what fetchSpec returned.
\* (First a variant that leaves the error out.)
serviceSummaryOmitsFailed(name, url, result) ==
    IF failedResult(result)
    THEN [service |-> name, baseUrl |-> url, error |-> Undefined,
          title |-> Undefined, description |-> Undefined, endpoints |-> << >>]
    ELSE [service |-> name, baseUrl |-> url, error |-> Undefined,
          title |-> DocBody(result.spec).info.title,
          description |-> DocBody(result.spec).info.description,
          endpoints |-> endpointsOf(DocBody(result.spec))]

serviceSummary(name, url, result) ==
    IF failedResult(result)
    THEN [service |-> name, baseUrl |-> url, error |-> result.error,
          title |-> Undefined, description |-> Undefined, endpoints |-> << >>]
    ELSE [service |-> name, baseUrl |-> url, error |-> Undefined,
          title |-> DocBody(result.spec).info.title,
          description |-> DocBody(result.spec).info.description,
          endpoints |-> endpointsOf(DocBody(result.spec))]

\* ------------------------------------------------------------------ searching

\* (First a variant that leaves the summary out of the text.)
searchTextOmitsSummary(path, details) ==
    toLowerCase(path \o << " " >> \o << " " >>
                \o join(details.bodyProps, << " " >>))

\* `${path} ${summary} ${bodyProps.join(" ")}`.toLowerCase()
searchText(path, details) ==
    toLowerCase(path \o << " " >> \o summaryOf(details) \o << " " >>
                \o join(details.bodyProps, << " " >>))

matchOf(name, url, path, m) ==
    [service |-> name, baseUrl |-> url, method |-> toUpperCase(m.method),
     path |-> path, summary |-> summaryOf(detailsOf(m)),
     bodyFields |-> detailsOf(m).bodyProps]

\* The search callback throws a TypeError: Object.entries(null) for a path
\* entry and details.summary for a recognized method whose value is null.
\* It does not read the parameters.
searchRaises(doc) ==
    \E i \in 1..Len(pathEntries(doc)) :
        LET pathEntry == pathEntries(doc)[i]
        IN  \/ shapeOf(pathEntry) = "null"
            \/ \E j \in 1..Len(methodEntries(pathEntry)) :
                   /\ isRecognized(methodEntries(pathEntry)[j].method)
                   /\ shapeOf(methodEntries(pathEntry)[j]) = "null"

\* The two loops of the search callback over a document: what they push onto
\* matches, in the order they push it; q is the lowercased query.
matchesOf(name, url, doc, q) ==
    flat([i \in 1..Len(pathEntries(doc)) |->
        LET ms == SelectSeq(methodEntries(pathEntries(doc)[i]), LAMBDA m :
                    /\ isRecognized(m.method)
                    /\ includes(searchText(pathEntries(doc)[i].path, detailsOf(m)), q))
        IN  [j \in 1..Len(ms) |-> matchOf(name, url, pathEntries(doc)[i].path, ms[j])]])

\* What the per-service callback of search_endpoints pushes onto matches, in
\* the order it pushes it, given what fetchSpec returned; q is the lowercased query.
\* (First a variant that pushes an entry for a failed service.)
serviceMatchesSurfacesError(name, url, result, q) ==
    IF failedResult(result)
    THEN << [service |-> name, baseUrl |-> url, method |-> << >>,
             path |-> << >>, summary |-> << >>, bodyFields |-> << >>] >>
    ELSE matchesOf(name, url, DocBody(result.spec), q)

serviceMatches(name, url, result, q) ==
    IF failedResult(result) THEN << >>
    ELSE matchesOf(name, url, DocBody(result.spec), q)

\* The search callback applied to a document and a query: the matches it
\* pushes, or raised when it throws.
search(doc, query) ==
    IF searchRaises(doc) THEN [raised |-> TRUE, matches |-> << >>]
    ELSE [raised |-> FALSE,
          matches |-> matchesOf("svc-a", urlOf("svc-a"), doc, toLowerCase(query))]

\* ---------------------------------------------------------------------- state

VARIABLES
    now,         \* Date.now(), in milliseconds since the process started
    specsCache,  \* the Map specsCache: a function from its keys to CachedSpec
    reqs,        \* the requests in progress: one handler invocation per slot
    arrivals,    \* how many requests have arrived
    sessions,    \* the Map sessions of the protocol bridge: session id -> transport
    uuids,       \* how many ids crypto.randomUUID() has returned
    known,       \* the session ids a response has disclosed to a client
    mcp,         \* the /mcp requests in progress: one handler invocation per slot
    sent,        \* the last response a /mcp handler has written
    probe        \* the call of a pure function under examination, and its result

bridgeVars == << sessions, uuids, known, mcp, sent >>

vars == << now, specsCache, reqs, arrivals, sessions, uuids, known, mcp, sent, probe >>

ReqIds == 1..MaxReqs

\* No CachedSpec: what a pending fetchSpec call has returned so far.
NoResult == [spec |-> Null, fetchedAt |-> -1, error |-> Undefined]

\* One fetchSpec(name, url) call of a request.
\*   st       "none" (not called), "fetching" (awaiting fetch), "done" (returned)
\*   src      "cache" when the early return answered, "fetch" otherwise
\*   result   the CachedSpec returned
\*   outcome  how the fetch ended (history)
\*   had      what specsCache held for the service at the call (history):
\*            "nothing", a "fresh" entry, or an "expired" one
\*   overtaken  whether a POST /refresh/:service for the service has arrived
\*            while the fetch was in flight (history)
NoTask ==
    [st |-> "none", src |-> "none", result |-> NoResult, outcome |-> "none",
     had |-> "nothing", overtaken |-> FALSE]

\* A free slot.
\*   kind     the route or tool being served
\*   pc       "idle", or "waiting": on await fetchSpec(...) / await Promise.all(...),
\*            and then to send the response
\*   arg      the :service parameter or the query
\*   tasks    the fetchSpec call per service
\*   order    the services in the order their callbacks resumed
\*   matches  the matches array of search_endpoints
\*   hadFresh whether POST /refresh/:service found a fresh entry to delete (history)
IdleReq ==
    [kind |-> "idle", pc |-> "idle", arg |-> << >>,
     tasks |-> [s \in TaskNames |-> NoTask],
     order |-> << >>, matches |-> << >>, hadFresh |-> FALSE]

\* The slots of the /mcp handlers in progress.
McpIds == 1..MaxReqs

\* A request without an mcp-session-id header (or with an empty one).
NoHeader == -1

\* An id a client made up.  The n-th id crypto.randomUUID() returns is n; a
\* client presents no id that it has not been sent.
ForgedId == 0

\* What call_api returns, as the object it serializes: either error alone, or
\* status, ok and data.  A field the object does not have is Undefined.
NoCallResult ==
    [error |-> Undefined, status |-> Undefined, ok |-> Undefined, data |-> Undefined]

\* A free slot.
\*   op       "post" or "delete"
\*   pc       "idle"; "connecting": on await mcpServer.connect(transport);
\*            "fetching": call_api on await fetch(...) or await response.text();
\*            "closing": on await transport.close()
\*   header   the mcp-session-id header of the request
\*   sid      the session the handler works on
\*   body     the JSON-RPC request: "initialize", or "call_api" (tools/call)
\*   service  the service argument of call_api
IdleMcp ==
    [op |-> "idle", pc |-> "idle", header |-> NoHeader, sid |-> NoHeader,
     body |-> "none", service |-> "none"]

\* No response written yet.
\*   op, header  the request answered
\*   status      the HTTP status
\*   sid         the mcp-session-id header of the response, NoHeader if none
\*   outcome     how the fetch of call_api ended (history)
\*   tool        the tool that answered, "none" if none did
\*   result      what the tool returned
NoResponse ==
    [op |-> "none", header |-> NoHeader, status |-> 0, sid |-> NoHeader,
     outcome |-> "none", tool |-> "none", result |-> NoCallResult]

\* No pure function under examination.
NoProbe == [fn |-> "none"]

InitRegistry ==
    /\ now = 0
    /\ specsCache = << >>
    /\ reqs = [r \in ReqIds |-> IdleReq]
    /\ arrivals = 0

\* registerMcpEndpoint has run: sessions = new Map().
InitBridge ==
    /\ sessions = << >>
    /\ uuids = 0
    /\ known = {}
    /\ mcp = [m \in McpIds |-> IdleMcp]
    /\ sent = NoResponse

Init ==
    /\ InitRegistry
    /\ InitBridge
    /\ probe = NoProbe

\* ---------------------------------------------------------------- fetchSpec

\* fetchSpec(name, url) up to its first await: the early return, or fetch() issued.
fetchSpecCall(cache, name, t) ==
    LET had == IF name \notin DOMAIN cache THEN "nothing"
               ELSE IF t - cache[name].fetchedAt >= CACHE_TTL_MS THEN "expired"
               ELSE "fresh"
    IN  IF cacheFresh(cache, name, t)
        THEN [st |-> "done", src |-> "cache", result |-> cache[name],
              outcome |-> "none", had |-> had, overtaken |-> FALSE]
        ELSE [st |-> "fetching", src |-> "fetch", result |-> NoResult,
              outcome |-> "none", had |-> had, overtaken |-> FALSE]

\* (First a variant that awaits each call before it makes the next: only the
\* first service of the directory is called in the first run.)
fetchSpecCallsOneByOne(cache, called, t) ==
    [s \in TaskNames |->
        IF /\ s \in called
           /\ \E j \in 1..Len(SERVICES) :
                 /\ SERVICES[j].name = s
                 /\ \A k \in 1..(j - 1) : SERVICES[k].name \notin called
        THEN fetchSpecCall(cache, s, t) ELSE NoTask]

\* fetchSpec called for every service in called, in one synchronous run.
fetchSpecCalls(cache, called, t) ==
    [s \in TaskNames |->
        IF s \in called THEN fetchSpecCall(cache, s, t) ELSE NoTask]

\* The services whose call returned from the cache, in directory order: their
\* callbacks resume, in this order, before any fetch can settle.
hitOrder(tasks) ==
    LET names == [i \in 1..Len(SERVICES) |-> SERVICES[i].name]
    IN  SelectSeq(names, LAMBDA s : tasks[s].st = "done")

allSettled(req) == \A s \in TaskNames : req.tasks[s].st # "fetching"

\* ------------------------------------------------------------------- actions

\* Time passes.
Tick ==
    /\ now < MaxTicks * TickMs
    /\ now' = now + TickMs
    /\ UNCHANGED << specsCache, reqs, arrivals, bridgeVars, probe >>

\* A request arrives and takes the first free slot, r.
arrives(r) ==
    /\ reqs[r].pc = "idle"
    /\ \A r2 \in ReqIds : r2 < r => reqs[r2].pc # "idle"
    /\ arrivals < MaxArrivals
    /\ arrivals' = arrivals + 1
    /\ UNCHANGED << bridgeVars, probe >>

notFound(service) ==
    [status |-> 404,
     body |-> [error |-> "not found", service |-> service,
               available |-> [i \in 1..Len(SERVICES) |-> SERVICES[i].name]]]

\* GET /openapi/:service arrives: for a registered service, fetchSpec is called.
GetOpenapiService(r, service) ==
    /\ arrives(r)
    /\ LET tasks == fetchSpecCalls(specsCache, { s \in { service } : hasService(s) }, now)
       IN  reqs' = [reqs EXCEPT ![r] =
               [IdleReq EXCEPT !.kind = "openapi", !.pc = "waiting",
                               !.arg = service, !.tasks = tasks,
                               !.order = hitOrder(tasks)]]
    /\ UNCHANGED << now, specsCache >>

\* The tool get_service_spec is called: the same lookup, the same fetchSpec.
ToolGetServiceSpec(r, service) ==
    /\ arrives(r)
    /\ LET tasks == fetchSpecCalls(specsCache, { s \in { service } : hasService(s) }, now)
       IN  reqs' = [reqs EXCEPT ![r] =
               [IdleReq EXCEPT !.kind = "toolspec", !.pc = "waiting",
                               !.arg = service, !.tasks = tasks,
                               !.order = hitOrder(tasks)]]
    /\ UNCHANGED << now, specsCache >>

\* The map callback of a Promise.all over Object.entries(SERVICES) runs for
\* every service up to its await.
aggregateStarts(r) ==
    /\ arrives(r)
    /\ LET tasks == fetchSpecCalls(specsCache, ServiceNames, now)
       IN  reqs' = [reqs EXCEPT ![r] =
               [IdleReq EXCEPT !.kind = "aggregate", !.pc = "waiting",
                               !.tasks = tasks, !.order = hitOrder(tasks)]]
    /\ UNCHANGED << now, specsCache >>

\* GET /llm-context arrives.
GetLlmContext(r) == aggregateStarts(r)

\* The tool get_all_endpoints is called: the same callback, the same Promise.all.
ToolGetAllEndpoints(r) == aggregateStarts(r)

\* What the callbacks named in order have pushed onto matches, one after the other.
pushedMatches(tasks, order, q) ==
    flat([i \in 1..Len(order) |->
        serviceMatches(order[i], urlOf(order[i]), tasks[order[i]].result, q)])

\* The tool search_endpoints is called.
ToolSearchEndpoints(r, query) ==
    /\ arrives(r)
    /\ LET tasks == fetchSpecCalls(specsCache, ServiceNames, now)
       IN  reqs' = [reqs EXCEPT ![r] =
               [IdleReq EXCEPT !.kind = "search", !.pc = "waiting",
                               !.arg = query, !.tasks = tasks,
                               !.order = hitOrder(tasks),
                               !.matches = pushedMatches(tasks, hitOrder(tasks),
                                                         toLowerCase(query))]]
    /\ UNCHANGED << now, specsCache >>

\* The cache POST /refresh/:service hands to fetchSpec: specsCache.delete(service)
\* runs first, for any name.  (First a variant without the delete.)
refreshedCacheKeepsEntry(cache, service) == cache

refreshedCache(cache, service) == cacheDelete(cache, service)

\* History: the fetch of another request for the service that is in flight
\* when POST /refresh/:service arrives was issued before the refresh.
overtakenBy(req, service) ==
    [req EXCEPT !.tasks =
        [s \in TaskNames |->
            IF s = service /\ req.tasks[s].st = "fetching"
            THEN [req.tasks[s] EXCEPT !.overtaken = TRUE]
            ELSE req.tasks[s]]]

\* POST /refresh/:service arrives.
PostRefreshService(r, service) ==
    /\ arrives(r)
    /\ specsCache' = refreshedCache(specsCache, service)
    /\ LET tasks == fetchSpecCalls(specsCache', { s \in { service } : hasService(s) }, now)
       IN  reqs' = [r2 \in ReqIds |->
               IF r2 = r
               THEN [IdleReq EXCEPT !.kind = "refresh", !.pc = "waiting",
                                    !.arg = service, !.tasks = tasks,
                                    !.order = hitOrder(tasks),
                                    !.hadFresh = cacheFresh(specsCache, service, now)]
               ELSE overtakenBy(reqs[r2], service)]
    /\ UNCHANGED now

\* The cache POST /refresh hands to fetchSpec: specsCache.clear() runs first.
\* (First a variant without the clear.)
clearedCacheKeepsEntries(cache) == cache

clearedCache(cache) == << >>

\* POST /refresh arrives: the cache is cleared and the map callback of the
\* Promise.all over Object.entries(SERVICES) runs for every service up to its
\* await.
PostRefresh(r) ==
    /\ arrives(r)
    /\ specsCache' = clearedCache(specsCache)
    /\ LET tasks == fetchSpecCalls(specsCache', ServiceNames, now)
       IN  reqs' = [reqs EXCEPT ![r] =
               [IdleReq EXCEPT !.kind = "refreshAll", !.pc = "waiting",
                               !.tasks = tasks, !.order = hitOrder(tasks),
                               !.hadFresh = \E s \in ServiceNames :
                                               cacheFresh(specsCache, s, now)]]
    /\ UNCHANGED now

\* What the callback of POST /refresh returns for one service.
refreshResult(name, result) ==
    [name |-> name,
     error |-> IF result.error # Undefined THEN result.error ELSE Null]

\* The fetch of request r for service name settles: fetchSpec stores the entry
\* and returns it, and the callback that awaited it runs on.
FetchSettles(r, name, outcome) ==
    /\ reqs[r].pc = "waiting"
    /\ reqs[r].tasks[name].st = "fetching"
    /\ outcome \in OutcomesOf(name)
    /\ LET entry == settledEntry(name, outcome, now)
           req   == reqs[r]
       IN  /\ specsCache' = cacheSet(specsCache, name, entry)
           /\ reqs' = [reqs EXCEPT ![r] =
                [req EXCEPT
                    !.tasks[name] = [st |-> "done", src |-> "fetch",
                                     result |-> entry, outcome |-> outcome,
                                     had |-> req.tasks[name].had,
                                     overtaken |-> req.tasks[name].overtaken],
                    !.order = Append(req.order, name),
                    !.matches =
                        IF req.kind = "search"
                        THEN req.matches \o
                             serviceMatches(name, urlOf(name), entry,
                                            toLowerCase(req.arg))
                        ELSE req.matches]]
    /\ UNCHANGED << now, arrivals, bridgeVars, probe >>

\* await Promise.all(...) has resolved: every callback has returned.
\* (First a variant that resolves with the first callback, as Promise.race does.)
awaitedAnySettled(req) == \E s \in TaskNames : req.tasks[s].st = "done"

awaited(req) == allSettled(req)

\* The array Promise.all resolves to: one value per input promise, in input order.
\* (First a variant that collects the values as the callbacks return.)
promiseAllInSettleOrder(req) ==
    [i \in 1..Len(req.order) |->
        serviceSummary(req.order[i], urlOf(req.order[i]),
                       req.tasks[req.order[i]].result)]

promiseAll(req) ==
    [i \in 1..Len(SERVICES) |->
        serviceSummary(SERVICES[i].name, SERVICES[i].url,
                       req.tasks[SERVICES[i].name].result)]

\* A map callback of the handler has thrown on the document fetchSpec returned
\* to it: the promise it handed to Promise.all is rejected.
rejects(req) ==
    \E s \in ServiceNames :
        /\ req.tasks[s].st = "done"
        /\ ~failedResult(req.tasks[s].result)
        /\ \/ /\ req.kind = "aggregate"
              /\ raisesTypeError(DocBody(req.tasks[s].result.spec))
           \/ /\ req.kind = "search"
              /\ searchRaises(DocBody(req.tasks[s].result.spec))

\* await Promise.all(...) throws in a handler without a try block: the
\* handler ends and writes no response of its own.  (Promise.all rejects with
\* the first callback that throws; the handler is let run on once every
\* callback has ended, which changes neither what it sends nor what is cached.)
Rejected == [status |-> 0, body |-> [error |-> "TypeError"]]

\* What the handler sends once its awaits have resolved.
responseOf(req) ==
    IF rejects(req) THEN Rejected
    ELSE IF req.kind = "openapi"
    THEN IF ~hasService(req.arg) THEN notFound(req.arg)
         ELSE LET result == req.tasks[req.arg].result
              IN  IF result.error # Undefined
                  THEN [status |-> 502,
                        body |-> [error |-> "failed to fetch", detail |-> result.error]]
                  ELSE [status |-> 200, body |-> [spec |-> result.spec]]
    ELSE IF req.kind = "refresh"
    THEN IF ~hasService(req.arg)
         THEN [status |-> 404, body |-> [error |-> "not found", service |-> req.arg]]
         ELSE
         LET result == req.tasks[req.arg].result
         IN  [status |-> 200,
              body |-> [service |-> req.arg, refreshed |-> TRUE,
                        error |-> IF result.error # Undefined
                                  THEN result.error ELSE Null]]
    ELSE IF req.kind = "refreshAll"
    THEN [status |-> 200,
          body |-> [refreshed |-> TRUE,
                    services |-> [i \in 1..Len(SERVICES) |->
                        refreshResult(SERVICES[i].name,
                                      req.tasks[SERVICES[i].name].result)]]]
    ELSE IF req.kind = "toolspec"
    THEN IF ~hasService(req.arg)
         THEN [status |-> 200, body |-> notFound(req.arg).body]
         ELSE LET result == req.tasks[req.arg].result
              IN  IF result.error # Undefined
                  THEN [status |-> 200, body |-> [error |-> result.error]]
                  ELSE [status |-> 200, body |-> [spec |-> result.spec]]
    ELSE IF req.kind = "search"
    THEN [status |-> 200,
          body |-> [query |-> req.arg, matchCount |-> Len(req.matches),
                    matches |-> req.matches]]
    ELSE [status |-> 200, body |-> [services |-> promiseAll(req)]]

\* The handler of request r sends its response, responseOf(reqs[r]), and ends.
Respond(r) ==
    /\ reqs[r].pc = "waiting"
    /\ awaited(reqs[r])
    /\ reqs' = [reqs EXCEPT ![r] = IdleReq]
    /\ UNCHANGED << now, specsCache, arrivals, bridgeVars, probe >>

Next ==
    \/ Tick
    \/ \E r \in ReqIds, service \in RequestNames : GetOpenapiService(r, service)
    \/ \E r \in ReqIds, service \in RequestNames : ToolGetServiceSpec(r, service)
    \/ \E r \in ReqIds : GetLlmContext(r)
    \/ \E r \in ReqIds : ToolGetAllEndpoints(r)
    \/ \E r \in ReqIds, query \in Queries : ToolSearchEndpoints(r, query)
    \/ \E r \in ReqIds, service \in RequestNames : PostRefreshService(r, service)
    \/ \E r \in ReqIds : PostRefresh(r)
    \/ \E r \in ReqIds, name \in ServiceNames, outcome \in Outcomes :
          FetchSettles(r, name, outcome)
    \/ \E r \in ReqIds : Respond(r)

Spec == Init /\ [][Next]_vars

\* The routes that call fetchSpec for one service, and the route that invalidates.
NextCache ==
    \/ Tick
    \/ \E r \in ReqIds, service \in RequestNames : GetOpenapiService(r, service)
    \/ \E r \in ReqIds, service \in RequestNames : PostRefreshService(r, service)
    \/ \E r \in ReqIds, name \in ServiceNames, outcome \in Outcomes :
          FetchSettles(r, name, outcome)
    \/ \E r \in ReqIds : Respond(r)

SpecCache == Init /\ [][NextCache]_vars

\* The two callers of the aggregating Promise.all.  The clock stands still: an
\* entry, once cached, answers every later call, and a call made before the
\* entry is stored fetches, so hits, misses and both mixed all occur.
NextAggregate ==
    \/ \E r \in ReqIds : GetLlmContext(r)
    \/ \E r \in ReqIds : ToolGetAllEndpoints(r)
    \/ \E r \in ReqIds, name \in ServiceNames, outcome \in Outcomes :
          FetchSettles(r, name, outcome)
    \/ \E r \in ReqIds : Respond(r)

SpecAggregate == Init /\ [][NextAggregate]_vars

\* Every fetch settles (AbortSignal.timeout bounds it), and a handler whose
\* awaits have resolved runs on.
Fairness ==
    \A r \in ReqIds :
        /\ WF_vars(Respond(r))
        /\ \A name \in ServiceNames :
              WF_vars(\E outcome \in Outcomes : FetchSettles(r, name, outcome))

FairSpecAggregate == SpecAggregate /\ Fairness

\* The tool search_endpoints, the clock standing still as above.
NextSearch ==
    \/ \E r \in ReqIds, query \in Queries : ToolSearchEndpoints(r, query)
    \/ \E r \in ReqIds, name \in ServiceNames, outcome \in Outcomes :
          FetchSettles(r, name, outcome)
    \/ \E r \in ReqIds : Respond(r)

SpecSearch == Init /\ [][NextSearch]_vars

\* The calls of fetchSpec for one service that can overlap: GET
\* /openapi/:service and POST /refresh/:service for the first service of the
\* directory, the clock advancing.
NextOverlap ==
    \/ Tick
    \/ \E r \in ReqIds : GetOpenapiService(r, SERVICES[1].name)
    \/ \E r \in ReqIds : PostRefreshService(r, SERVICES[1].name)
    \/ \E r \in ReqIds, outcome \in Outcomes :
          FetchSettles(r, SERVICES[1].name, outcome)
    \/ \E r \in ReqIds : Respond(r)

SpecOverlap == Init /\ [][NextOverlap]_vars

\* Everything that writes the cache: fetchSpec called by GET /openapi/:service
\* and the refresh of the first service of the directory, the refresh of all,
\* the clock advancing; a fetch delivers the document or fails with a status.
NextEntry ==
    \/ Tick
    \/ \E r \in ReqIds : GetOpenapiService(r, SERVICES[1].name)
    \/ \E r \in ReqIds : PostRefreshService(r, SERVICES[1].name)
    \/ \E r \in ReqIds : PostRefresh(r)
    \/ \E r \in ReqIds, name \in ServiceNames, outcome \in { "ok", "http500" } :
          FetchSettles(r, name, outcome)
    \/ \E r \in ReqIds : Respond(r)

SpecEntry == Init /\ [][NextEntry]_vars

\* The route that refreshes every service, with the route that fills the cache
\* for every service before it; a fetch delivers the document or fails with a
\* status, and the clock stands still.
NextRefreshAll ==
    \/ \E r \in ReqIds : GetLlmContext(r)
    \/ \E r \in ReqIds : PostRefresh(r)
    \/ \E r \in ReqIds, name \in ServiceNames, outcome \in { "ok", "http500" } :
          FetchSettles(r, name, outcome)
    \/ \E r \in ReqIds : Respond(r)

SpecRefreshAll == Init /\ [][NextRefreshAll]_vars

\* The aggregation and the search over services of which one may publish a
\* document of another shape; the clock stands still.
NextMalformed ==
    \/ \E r \in ReqIds : GetLlmContext(r)
    \/ \E r \in ReqIds, query \in Queries : ToolSearchEndpoints(r, query)
    \/ \E r \in ReqIds, name \in ServiceNames,
          outcome \in { "ok", "http500" } \cup MalformedOutcomes :
          FetchSettles(r, name, outcome)
    \/ \E r \in ReqIds : Respond(r)

SpecMalformed == Init /\ [][NextMalformed]_vars


NextLookup ==
    \/ \E r \in ReqIds, service \in LookupNames : GetOpenapiService(r, service)
    \/ \E r \in ReqIds, service \in LookupNames : ToolGetServiceSpec(r, service)
    \/ \E r \in ReqIds, name \in TaskNames, outcome \in Outcomes \cup { "invalidUrl" } :
          FetchSettles(r, name, outcome)
    \/ \E r \in ReqIds : Respond(r)

SpecLookup == Init /\ [][NextLookup]_vars

\* ---------------------------------------------------------- the protocol bridge

\* How many /mcp requests arrive.
MaxMcpArrivals == 4

\* How many ids crypto.randomUUID() is asked for.
MaxUuids == 2

\* The mcp-session-id headers a client can send: none, one it made up, or one
\* a response has carried.
Headers(k) == { NoHeader, ForgedId } \cup k

\* The JSON-RPC requests a POST carries, with the service argument of call_api.
Bodies ==
    { [body |-> "initialize", service |-> "none"] } \cup
    { [body |-> "call_api", service |-> sv] : sv \in { "svc-a", UnknownService } \cup InheritedNames }

\* (First a variant that keeps one session only: the one it sets.)
sessionsSetEvicts(table, id, transport) ==
    [k \in { id } |-> transport]

\* sessions.set(id, transport): the transport is the record of its own state.
sessionsSet(table, id, transport) ==
    [k \in DOMAIN table \cup { id } |-> IF k = id THEN transport ELSE table[k]]

\* sessions.delete(id)
sessionsDelete(table, id) == [k \in DOMAIN table \ { id } |-> table[k]]

\* crypto.randomUUID(), n ids having been returned before: an id never returned
\* before.  (First a variant that returns the same id every time.)
randomUUIDRepeats(n) == 1

randomUUID(n) == n + 1

\* How the request call_api sends can end.
\*   json, text   a 2xx response whose body is JSON, or is not
\*   http500      a response with response.ok false
\*   refused, timeout, bodyAborted
\*                fetch or response.text() rejects: connection refused or DNS,
\*                AbortSignal.timeout(30_000), the connection lost mid-body
\*   invalidUrl   fetch rejects at once: `${baseUrl}${path}` is no URL
CallOutcomes == { "json", "text", "http500", "refused", "timeout", "bodyAborted" }

CallOutcomesOf(service) ==
    IF service \in ServiceNames THEN CallOutcomes ELSE { "invalidUrl" }

TransportFailures == { "refused", "timeout", "bodyAborted", "invalidUrl" }

\* err.message of what call_api's try block throws.
callErrorMessage(outcome) ==
    IF outcome = "refused" THEN "fetch failed"
    ELSE IF outcome = "bodyAborted" THEN "terminated"
    ELSE IF outcome = "invalidUrl" THEN "Failed to parse URL"
    ELSE "The operation was aborted due to timeout"

\* What call_api returns once its request has ended: the end of the try block,
\* or the catch block.  (First a variant whose catch block returns nothing.)
callApiResultSwallows(outcome) ==
    IF outcome \in TransportFailures THEN NoCallResult
    ELSE [NoCallResult EXCEPT
            !.status = IF outcome = "http500" THEN "500" ELSE "200",
            !.ok = IF outcome = "http500" THEN "false" ELSE "true",
            !.data = IF outcome = "text" THEN "responseBody" ELSE "parsed"]

callApiResult(outcome) ==
    IF outcome \in TransportFailures
    THEN [NoCallResult EXCEPT !.error = callErrorMessage(outcome)]
    ELSE [NoCallResult EXCEPT
            !.status = IF outcome = "http500" THEN "500" ELSE "200",
            !.ok = IF outcome = "http500" THEN "false" ELSE "true",
            !.data = IF outcome = "text" THEN "responseBody" ELSE "parsed"]

\* What call_api returns when services[service] is falsy; available is
\* Object.keys(services), the not-found message stands for its text.
\* list_services: one record for each entry of the directory, in its order.
listServices(services) ==
    [NoCallResult EXCEPT
        !.data = [i \in 1..Len(services) |->
                    [name |-> services[i].name,
                     baseUrl |-> services[i].url,
                     openapiUrl |-> services[i].url \o "/openapi.json"]]]

callApiNotFound(service) ==
    [NoCallResult EXCEPT !.error = "not found",
                         !.data = [i \in 1..Len(SERVICES) |-> SERVICES[i].name]]

\* The response of a /mcp handler.
response(op, header, status, sid) ==
    [NoResponse EXCEPT !.op = op, !.header = header, !.status = status, !.sid = sid]

\* A /mcp request arrives.
mcpArrives ==
    /\ arrivals < MaxMcpArrivals
    /\ arrivals' = arrivals + 1
    /\ UNCHANGED << now, specsCache, reqs, probe >>

\* The first free slot is m.
freeSlot(m) ==
    /\ mcp[m].pc = "idle"
    /\ \A m2 \in McpIds : m2 < m => mcp[m2].pc # "idle"

\* sessionId ? sessions.get(sessionId) : undefined, as the test `!transport`
\* reads it: whether the table holds a transport for the header.
\* (First a variant that finds none.)
sessionsGetFindsNone(table, header) == FALSE

sessionsGet(table, header) == header \in DOMAIN table

\* POST /mcp arrives.  With no transport for the header, a session is created
\* under a new id and the handler awaits connect.  With one, handleRequest runs
\* in the same turn: the transport answers initialize once (calling
\* onsessioninitialized), answers a tool call only once initialized, and the
\* tool call_api returns not-found or awaits its request.
\* The id of the session POST /mcp establishes when it found no transport:
\* sessionId, which held the header, is assigned a generated id.
\* (First a variant that keeps the id the client presented.)
newSessionIdKeepsHeader(header, n) ==
    IF header # NoHeader THEN header ELSE randomUUID(n)

newSessionId(header, n) == randomUUID(n)

PostMcp(m, header, rpc) ==
    /\ mcpArrives
    /\ freeSlot(m)
    /\ IF sessionsGet(sessions, header)
       THEN /\ UNCHANGED << uuids, known >>
            /\ IF rpc.body = "initialize"
               THEN IF sessions[header].initialized
                    THEN /\ sent' = response("post", header, 400, header)
                         /\ UNCHANGED << sessions, mcp >>
                    ELSE /\ sessions' = sessionsSet(sessions, header,
                                                    [initialized |-> TRUE])
                         /\ sent' = response("post", header, 200, header)
                         /\ UNCHANGED mcp
               ELSE IF ~sessions[header].initialized
                    THEN /\ sent' = response("post", header, 400, header)
                         /\ UNCHANGED << sessions, mcp >>
                    ELSE IF rpc.body = "list_services"
                    THEN /\ sent' = [response("post", header, 200, header)
                                       EXCEPT !.tool = rpc.body,
                                              !.result = listServices(SERVICES)]
                         /\ UNCHANGED << sessions, mcp >>
                    ELSE IF ~hasService(rpc.service)
                    THEN /\ sent' = [response("post", header, 200, header)
                                       EXCEPT !.tool = rpc.body,
                                              !.result = callApiNotFound(rpc.service)]
                         /\ UNCHANGED << sessions, mcp >>
                    ELSE /\ mcp' = [mcp EXCEPT ![m] =
                                [op |-> "post", pc |-> "fetching", header |-> header,
                                 sid |-> header, body |-> rpc.body,
                                 service |-> rpc.service]]
                         /\ UNCHANGED << sessions, sent >>
       ELSE /\ uuids < MaxUuids
            /\ uuids' = uuids + 1
            /\ LET sessionId == newSessionId(header, uuids)
               IN  /\ sessions' = sessionsSet(sessions, sessionId,
                                              [initialized |-> FALSE])
                   /\ mcp' = [mcp EXCEPT ![m] =
                          [op |-> "post", pc |-> "connecting", header |-> header,
                           sid |-> sessionId, body |-> rpc.body,
                           service |-> rpc.service]]
            /\ UNCHANGED << known, sent >>

\* await mcpServer.connect(transport) has resolved: the response header is set
\* and the new transport handles the request, an initialize by calling
\* onsessioninitialized, anything else by refusing it.
PostMcpConnected(m) ==
    /\ mcp[m].pc = "connecting"
    /\ LET sid == mcp[m].sid
       IN  /\ IF mcp[m].body = "initialize"
              THEN /\ sessions' = sessionsSet(sessions, sid, [initialized |-> TRUE])
                   /\ sent' = response("post", mcp[m].header, 200, sid)
              ELSE /\ sent' = response("post", mcp[m].header, 400, sid)
                   /\ UNCHANGED sessions
           /\ known' = known \cup { sid }
    /\ mcp' = [mcp EXCEPT ![m] = IdleMcp]
    /\ UNCHANGED << now, specsCache, reqs, arrivals, uuids, probe >>

\* The request of call_api has ended: the tool returns and the transport
\* writes the result.
CallApiSettles(m, outcome) ==
    /\ mcp[m].pc = "fetching"
    /\ outcome \in CallOutcomesOf(mcp[m].service)
    /\ sent' = [response("post", mcp[m].header, 200, mcp[m].sid)
                  EXCEPT !.outcome = outcome, !.tool = mcp[m].body,
                         !.result = callApiResult(outcome)]
    /\ mcp' = [mcp EXCEPT ![m] = IdleMcp]
    /\ UNCHANGED << now, specsCache, reqs, arrivals, sessions, uuids, known, probe >>

\* The status GET /mcp answers with: 400 without a header, 404 without a
\* session, else what the transport's handleRequest sends.
\* (First a variant that attaches to any id.)
attachStatusAcceptsUnknown(table, header) ==
    IF header = NoHeader THEN 400 ELSE 200

attachStatus(table, header) ==
    IF header = NoHeader THEN 400
    ELSE IF header \notin DOMAIN table THEN 404
    ELSE 200

\* GET /mcp arrives and is answered.
GetMcp(header) ==
    /\ mcpArrives
    /\ sent' = response("get", header, attachStatus(sessions, header), NoHeader)
    /\ UNCHANGED << sessions, uuids, known, mcp >>

\* DELETE /mcp arrives: with a session for the header the handler awaits
\* transport.close(), without one it answers at once.
\* The status DELETE /mcp answers with, whether it found the session or not.
\* (First a variant that reports a session it did not find.)
deleteStatusNotFound(table, header) ==
    IF header \in DOMAIN table THEN 200 ELSE 404

deleteStatus(table, header) == 200

DeleteMcp(m, header) ==
    /\ mcpArrives
    /\ freeSlot(m)
    /\ IF header \in DOMAIN sessions
       THEN /\ mcp' = [mcp EXCEPT ![m] =
                  [IdleMcp EXCEPT !.op = "delete", !.pc = "closing",
                                  !.header = header, !.sid = header]]
            /\ UNCHANGED sent
       ELSE /\ sent' = response("delete", header,
                                 deleteStatus(sessions, header), NoHeader)
            /\ UNCHANGED mcp
    /\ UNCHANGED << sessions, uuids, known >>

\* The table DELETE /mcp leaves once close() has resolved.
\* (First a variant without the delete.)
closedSessionsKeepsEntry(table, sid) == table

closedSessions(table, sid) == sessionsDelete(table, sid)

\* await transport.close() has resolved.
DeleteMcpClosed(m) ==
    /\ mcp[m].pc = "closing"
    /\ sessions' = closedSessions(sessions, mcp[m].sid)
    /\ sent' = response("delete", mcp[m].header,
                         deleteStatus(sessions, mcp[m].sid), NoHeader)
    /\ mcp' = [mcp EXCEPT ![m] = IdleMcp]
    /\ UNCHANGED << now, specsCache, reqs, arrivals, uuids, known, probe >>

NextMcp ==
    \/ \E m \in McpIds, header \in Headers(known), rpc \in Bodies :
          PostMcp(m, header, rpc)
    \/ \E m \in McpIds : PostMcpConnected(m)
    \/ \E m \in McpIds, outcome \in CallOutcomes \cup { "invalidUrl" } :
          CallApiSettles(m, outcome)
    \/ \E header \in Headers(known) : GetMcp(header)
    \/ \E m \in McpIds, header \in Headers(known) : DeleteMcp(m, header)
    \/ \E m \in McpIds : DeleteMcpClosed(m)

SpecMcp == Init /\ [][NextMcp]_vars

\* The routes of the bridge with the clock advancing; the tool calls are for
\* the first service of the directory.
NextSession ==
    \/ Tick
    \/ \E m \in McpIds, header \in Headers(known),
          rpc \in { b \in Bodies : b.service \in { "none", SERVICES[1].name } } :
          PostMcp(m, header, rpc)
    \/ \E m \in McpIds : PostMcpConnected(m)
    \/ \E m \in McpIds, outcome \in CallOutcomes : CallApiSettles(m, outcome)
    \/ \E header \in Headers(known) : GetMcp(header)
    \/ \E m \in McpIds, header \in Headers(known) : DeleteMcp(m, header)
    \/ \E m \in McpIds : DeleteMcpClosed(m)

SpecSession == Init /\ [][NextSession]_vars

\* The routes that read and invalidate one service, next to a client of the
\* bridge that initializes a session and calls list_services and call_api.
ToolBodies ==
    { [body |-> "initialize", service |-> "none"],
      [body |-> "list_services", service |-> "none"],
      [body |-> "call_api", service |-> SERVICES[1].name] }

NextFrame ==
    \/ \E r \in ReqIds, service \in ServiceNames : GetOpenapiService(r, service)
    \/ \E r \in ReqIds, service \in ServiceNames : PostRefreshService(r, service)
    \/ \E r \in ReqIds, name \in ServiceNames, outcome \in { "ok", "http500" } :
          FetchSettles(r, name, outcome)
    \/ \E r \in ReqIds : Respond(r)
    \/ \E m \in McpIds, header \in { NoHeader } \cup known, rpc \in ToolBodies :
          PostMcp(m, header, rpc)
    \/ \E m \in McpIds : PostMcpConnected(m)
    \/ \E m \in McpIds, outcome \in { "json", "refused" } : CallApiSettles(m, outcome)

SpecFrame == Init /\ [][NextFrame]_vars

\* --------------------------------------------------------------- the auth gate

\* A header, or an environment variable: absent, or a text.
Absent == [present |-> FALSE, text |-> << >>]

Text(t) == [present |-> TRUE, text |-> t]

\* Neither undefined nor the empty string.
truthy(v) == v.present /\ v.text # << >>

\* String.prototype.indexOf, counted from 1; 0 when needle is not in hay.
indexOf(hay, needle) ==
    LET at == { i \in 1..(Len(hay) - Len(needle) + 1) :
                   SubSeq(hay, i, i + Len(needle) - 1) = needle }
    IN  IF at = {} THEN 0 ELSE CHOOSE i \in at : \A j \in at : i <= j

\* String.prototype.replace(needle, ""): the first occurrence is removed,
\* wherever it is.
removeFirst(s, needle) ==
    LET i == indexOf(s, needle)
    IN  IF i = 0 THEN s
        ELSE SubSeq(s, 1, i - 1) \o SubSeq(s, i + Len(needle), Len(s))

BearerPrefix == << "B", "e", "a", "r", "e", "r", " " >>

\* The secret of the deployment, and another key.
Secret == << "k", "1" >>
WrongKey == << "k", "2" >>

\* process.env.API_REGISTRY_SERVICE_API_KEY
ApiKeys == { Absent, Text(<< >>), Text(Secret) }

\* req.headers["x-api-key"]
XApiKeys == { Absent, Text(<< >>), Text(Secret), Text(WrongKey) }

\* req.headers.authorization
Authorizations ==
    { Absent, Text(Secret), Text(BearerPrefix \o Secret),
      Text(BearerPrefix \o WrongKey),
      Text(<< "k" >> \o BearerPrefix \o << "1" >>) }

\* req.path
Paths == { "/health", "/openapi.json", "/services", "/mcp" }

\* src/index.ts holds two variants of the server: the one without the spec
\* cache (it serves /openapi.json and validates the URLs of the directory),
\* and the one with it.
Builds == { "uncached", "cached" }

\* req.headers["x-api-key"] || req.headers.authorization?.replace("Bearer ", "")
provided(xApiKey, authorization) ==
    IF truthy(xApiKey) THEN xApiKey
    ELSE IF authorization.present
         THEN Text(removeFirst(authorization.text, BearerPrefix))
         ELSE Absent

\* requireApiKey: "next" when it calls next(), "401" when it answers itself.
requireApiKey(apiKey, xApiKey, authorization) ==
    IF ~truthy(apiKey) THEN "next"
    ELSE LET given == provided(xApiKey, authorization)
         IN  IF ~truthy(given) \/ given.text # apiKey.text THEN "401" ELSE "next"

\* The paths the middleware passes on without asking for a key.
exempt(build, path) ==
    IF build = "uncached" THEN path = "/health" \/ path = "/openapi.json"
    ELSE path = "/health"

\* The middleware in front of every route.
gate(build, apiKey, path, xApiKey, authorization) ==
    IF exempt(build, path) THEN "next"
    ELSE requireApiKey(apiKey, xApiKey, authorization)

\* A request at the gate of a deployment, not yet looked at.
GateProbes ==
    { [fn |-> "gate", build |-> b, apiKey |-> k, path |-> pa, xApiKey |-> x,
       authorization |-> a, out |-> "pending"] :
      b \in Builds, k \in ApiKeys, pa \in Paths, x \in XApiKeys,
      a \in Authorizations }

InitGate ==
    /\ InitRegistry
    /\ InitBridge
    /\ probe \in GateProbes

\* The middleware runs for the request.
Gate ==
    /\ probe.fn = "gate"
    /\ probe.out = "pending"
    /\ probe' = [probe EXCEPT !.out = gate(probe.build, probe.apiKey, probe.path,
                                          probe.xApiKey, probe.authorization)]
    /\ UNCHANGED << now, specsCache, reqs, arrivals, bridgeVars >>

NextGate == Gate

SpecGate == InitGate /\ [][NextGate]_vars

\* ------------------------------------------------------------- loadServices

\* String.prototype.startsWith / endsWith
startsWith(s, prefix) ==
    Len(s) >= Len(prefix) /\ SubSeq(s, 1, Len(prefix)) = prefix

endsWith(s, suffix) ==
    Len(s) >= Len(suffix) /\ SubSeq(s, Len(s) - Len(suffix) + 1, Len(s)) = suffix

RECURSIVE trimStart(_)
trimStart(s) ==
    IF Len(s) > 0 /\ s[1] = " " THEN trimStart(Tail(s)) ELSE s

RECURSIVE trimEnd(_)
trimEnd(s) ==
    IF Len(s) > 0 /\ s[Len(s)] = " " THEN trimEnd(SubSeq(s, 1, Len(s) - 1)) ELSE s

\* String.prototype.trim
trim(s) == trimEnd(trimStart(s))

RECURSIVE split(_, _)
\* String.prototype.split(sep), sep one character
split(s, sep) ==
    LET i == indexOf(s, << sep >>)
    IN  IF i = 0 THEN << s >>
        ELSE << SubSeq(s, 1, i - 1) >> \o split(SubSeq(s, i + 1, Len(s)), sep)

\* String.prototype.replace(/_/g, "-")
hyphenate(s) == [i \in 1..Len(s) |-> IF s[i] = "_" THEN "-" ELSE s[i]]

\* services[name] = url on an object whose keys keep their insertion order.
objectSet(entries, name, url) ==
    IF \E i \in 1..Len(entries) : entries[i].name = name
    THEN [i \in 1..Len(entries) |->
            IF entries[i].name = name THEN [name |-> name, url |-> url]
            ELSE entries[i]]
    ELSE Append(entries, [name |-> name, url |-> url])

RECURSIVE fromServicesEnv(_, _)
\* Method 1: the loop over servicesEnv.split(","), parts the entries left.
fromServicesEnv(parts, entries) ==
    IF Len(parts) = 0 THEN entries
    ELSE LET fields == split(trim(parts[1]), "=")
         IN  fromServicesEnv(Tail(parts),
                IF Len(fields) >= 2 /\ fields[1] # << >> /\ fields[2] # << >>
                THEN objectSet(entries, trim(fields[1]), trim(fields[2]))
                ELSE entries)

SERVICE_URL == << "_", "S", "E", "R", "V", "I", "C", "E", "_", "U", "R", "L" >>
WORKER_URL == << "_", "W", "O", "R", "K", "E", "R", "_", "U", "R", "L" >>
SERVICE_ == << "S", "E", "R", "V", "I", "C", "E", "_" >>
URL_ == << "_", "U", "R", "L" >>
RAILWAY_ == << "R", "A", "I", "L", "W", "A", "Y", "_" >>

\* match[1] of key.match(/^SERVICE_(.+)_URL$/) || key.match(/^(.+)_SERVICE_URL$/)
\* || key.match(/^(.+)_WORKER_URL$/), << >> when none matches; the first
\* pattern is the cached variant's alone.
matched(build, key) ==
    IF /\ build = "cached"
       /\ startsWith(key, SERVICE_) /\ endsWith(key, URL_)
       /\ Len(key) > Len(SERVICE_) + Len(URL_)
    THEN SubSeq(key, Len(SERVICE_) + 1, Len(key) - Len(URL_))
    ELSE IF endsWith(key, SERVICE_URL) /\ Len(key) > Len(SERVICE_URL)
    THEN SubSeq(key, 1, Len(key) - Len(SERVICE_URL))
    ELSE IF endsWith(key, WORKER_URL) /\ Len(key) > Len(WORKER_URL)
    THEN SubSeq(key, 1, Len(key) - Len(WORKER_URL))
    ELSE << >>

RECURSIVE fromEnv(_, _, _)
\* Method 2: the loop over Object.entries(process.env), env the entries left.
\* The uncached variant skips the keys that start with RAILWAY_.
fromEnv(build, env, entries) ==
    IF Len(env) = 0 THEN entries
    ELSE LET key == env[1].key
             name == matched(build, key)
         IN  fromEnv(build, Tail(env),
                IF /\ ~(build = "uncached" /\ startsWith(key, RAILWAY_))
                   /\ name # << >>
                   /\ env[1].value # << >>
                THEN objectSet(entries, hyphenate(toLowerCase(name)), env[1].value)
                ELSE entries)

\* /^https?:\/\//.test(url)
hasProtocol(url) ==
    startsWith(url, << "h", "t", "t", "p", ":", "/", "/" >>) \/ startsWith(url, << "h", "t", "t", "p", "s", ":", "/", "/" >>)

\* What both methods have collected.
collected(build, servicesEnv, env) ==
    fromEnv(build, env,
            IF truthy(servicesEnv)
            THEN fromServicesEnv(split(servicesEnv.text, ","), << >>)
            ELSE << >>)

\* loadServices(): the uncached variant then deletes the entries whose URL has
\* no protocol, the cached variant returns what it has collected.
loadServices(build, servicesEnv, env) ==
    IF build = "uncached"
    THEN SelectSeq(collected(build, servicesEnv, env), LAMBDA e : hasProtocol(e.url))
    ELSE collected(build, servicesEnv, env)

\* process.env.SERVICES
ServicesEnvs ==
    { Absent,
      Text(<< "a", "=", "h", "t", "t", "p", "s", ":", "/", "/", "a" >>),
      Text(<< "a", "=", "f", "t", "p", ":", "/", "/", "a", ",", " ", "B", "_", "x", " ", "=", " ", "h", "t", "t", "p", ":", "/", "/", "b" >>),
      Text(<< "a", "=", "a", ".", "i", "n", "t", "e", "r", "n", "a", "l", ",", "=", "x", ",", "c" >>),
      Text(<< "a", "=", "h", "t", "t", "p", "s", ":", "/", "/", "a", ",", "a", "=", "a", ":", "8", "0" >>) }

\* The other variables the environment may hold, in the order it holds them.
EnvCandidates ==
    << [key |-> << "B", "_", "S", "E", "R", "V", "I", "C", "E", "_", "U", "R", "L" >>, value |-> << "h", "t", "t", "p", "s", ":", "/", "/", "b" >>],
       [key |-> << "C", "_", "D", "_", "W", "O", "R", "K", "E", "R", "_", "U", "R", "L" >>, value |-> << "c", "-", "d", ":", "8", "0" >>],
       [key |-> << "S", "E", "R", "V", "I", "C", "E", "_", "E", "_", "U", "R", "L" >>, value |-> << "h", "t", "t", "p", ":", "/", "/", "e" >>],
       [key |-> << "R", "A", "I", "L", "W", "A", "Y", "_", "S", "E", "R", "V", "I", "C", "E", "_", "U", "R", "L" >>, value |-> << "r", ".", "u", "p" >>] >>

\* Object.entries(process.env): some of the candidates.
Envs ==
    { SelectSeq(EnvCandidates, LAMBDA e : e \in chosen) :
        chosen \in SUBSET { EnvCandidates[i] : i \in 1..Len(EnvCandidates) } }

LoadProbes ==
    { [fn |-> "loadServices", build |-> b, servicesEnv |-> sv, env |-> e,
       out |-> << >>, done |-> FALSE] :
      b \in Builds, sv \in ServicesEnvs, e \in Envs }

InitLoad ==
    /\ InitRegistry
    /\ InitBridge
    /\ probe \in LoadProbes

\* const SERVICES = loadServices()
LoadServices ==
    /\ probe.fn = "loadServices"
    /\ ~probe.done
    /\ probe' = [probe EXCEPT
                    !.out = loadServices(probe.build, probe.servicesEnv, probe.env),
                    !.done = TRUE]
    /\ UNCHANGED << now, specsCache, reqs, arrivals, bridgeVars >>

NextLoad == LoadServices

SpecLoad == InitLoad /\ [][NextLoad]_vars

\* ------------------------------------------------------ summarize, on its own

NoDetails == Details(<< >>, << >>, << >>, << >>)

\* What the value of a path may be: well-formed entries, entries with keys
\* that are no recognized method, and values of another shape.
PathEntryKinds ==
    { "plain", "keys", "null", "number", "nullDetails", "textDetails",
      "objectParameters", "nullParameters", "nullParameter" }

PathEntry(kind, path) ==
    IF kind = "plain"
    THEN [path |-> path, methods |-> <<
            [method |-> << "g", "e", "t" >>,
             details |-> Details(<< "L", "i", "s", "t" >>, << >>,
                << [name |-> "id", in |-> "header", required |-> Undefined, type |-> "string"],
                   [name |-> "limit", in |-> "query", required |-> "true", type |-> "integer"],
                   [name |-> "page", in |-> "path", required |-> Undefined, type |-> Undefined] >>,
                << << "n", "a", "m", "e" >>, << "u", "r", "l" >> >>)] >>]
    ELSE IF kind = "keys"
    THEN [path |-> path, methods |-> <<
            [method |-> << "G", "E", "T" >>, details |-> NoDetails],
            [method |-> << "P", "o", "s", "t" >>, details |-> NoDetails],
            [method |-> << "x", "-", "e", "x", "t" >>, details |-> NoDetails],
            [method |-> << "p", "a", "r", "a", "m", "e", "t", "e", "r", "s" >>, is |-> "null"],
            [method |-> << "d", "e", "l", "e", "t", "e" >>, details |-> NoDetails],
            [method |-> << "h", "e", "a", "d" >>, details |-> NoDetails] >>]
    ELSE IF kind = "null" THEN [path |-> path, is |-> "null"]
    ELSE IF kind = "number" THEN [path |-> path, is |-> "number"]
    ELSE IF kind = "nullDetails"
    THEN [path |-> path, methods |-> << [method |-> << "p", "u", "t" >>, is |-> "null"] >>]
    ELSE IF kind = "textDetails"
    THEN [path |-> path, methods |-> << [method |-> << "p", "a", "t", "c", "h" >>, is |-> "string"] >>]
    ELSE IF kind = "objectParameters"
    THEN [path |-> path, methods |-> <<
            [method |-> << "p", "o", "s", "t" >>,
             details |-> [summary |-> << >>, description |-> << "M", "a", "k", "e" >>,
                          parameters |-> << >>, bodyProps |-> << >>,
                          parametersIs |-> "object"]] >>]
    ELSE IF kind = "nullParameters"
    THEN [path |-> path, methods |-> <<
            [method |-> << "p", "o", "s", "t" >>,
             details |-> [summary |-> << >>, description |-> << "M", "a", "k", "e" >>,
                          parameters |-> << >>, bodyProps |-> << >>,
                          parametersIs |-> "null"]] >>]
    ELSE [path |-> path, methods |-> <<
            [method |-> << "g", "e", "t" >>,
             details |-> Details(<< >>, << >>,
                << [name |-> "q", in |-> "query", required |-> Undefined, type |-> Undefined],
                   [is |-> "null"] >>,
                << >>)] >>]

\* How many paths a document holds at most.
MaxPaths == 2

PathNames == << << "/", "p", "1" >>, << "/", "p", "2" >>, << "/", "p", "3" >> >>

RECURSIVE KindTuples(_)
\* The tuples of n path entry kinds.
KindTuples(n) ==
    IF n = 0 THEN { << >> }
    ELSE { Append(kinds, k) : kinds \in KindTuples(n - 1), k \in PathEntryKinds }

\* The documents summarize is examined on: a path table of up to MaxPaths
\* entries, and the documents whose paths is no object.
SummarizeDocs ==
    { [info |-> NoInfo,
       paths |-> [i \in 1..Len(kinds) |-> PathEntry(kinds[i], PathNames[i])]] :
      kinds \in UNION { KindTuples(n) : n \in 0..MaxPaths } }
    \cup { [info |-> NoInfo, paths |-> << >>, pathsIs |-> shape] :
           shape \in { "null", "string", "number" } }

SummarizeProbes ==
    { [fn |-> "summarize", doc |-> d, done |-> FALSE,
       out |-> [raised |-> FALSE, endpoints |-> << >>]] : d \in SummarizeDocs }

InitSummarize ==
    /\ InitRegistry
    /\ InitBridge
    /\ probe \in SummarizeProbes

\* The callback summarizes the document.
Summarize ==
    /\ probe.fn = "summarize"
    /\ ~probe.done
    /\ probe' = [probe EXCEPT !.out = summarize(probe.doc), !.done = TRUE]
    /\ UNCHANGED << now, specsCache, reqs, arrivals, bridgeVars >>

NextSummarize == Summarize

SpecSummarize == InitSummarize /\ [][NextSummarize]_vars

\* --------------------------------------------------------- search, on its own

\* Keywords: one that meets a summary in another case, one that meets only a
\* body field, one that spans the space between two body fields, one that
\* spans the space between path and summary, one that meets a description,
\* one that would span path and summary were they joined without a space, and
\* one that meets nothing.
SearchQueries ==
    { << "L", "I", "S", "T" >>, << "n", "a", "m" >>, << "e", " ", "U" >>,
      << "1", " ", "l" >>, << "m", "a", "k", "e" >>, << "1", "l" >>,
      << "z", "z" >> }

SearchProbes ==
    { [fn |-> "search", doc |-> d, query |-> q, done |-> FALSE,
       out |-> [raised |-> FALSE, matches |-> << >>]] :
      d \in SummarizeDocs, q \in SearchQueries }

InitMatch ==
    /\ InitRegistry
    /\ InitBridge
    /\ probe \in SearchProbes

\* The callback searches the document.
Search ==
    /\ probe.fn = "search"
    /\ ~probe.done
    /\ probe' = [probe EXCEPT !.out = search(probe.doc, probe.query), !.done = TRUE]
    /\ UNCHANGED << now, specsCache, reqs, arrivals, bridgeVars >>

NextMatch == Search

SpecMatch == InitMatch /\ [][NextMatch]_vars

\* ----------------------------------------- the request of call_api, on its own

\* An optional argument that is a record of strings: absent, or its entries
\* in insertion order.
NoRecord == [present |-> FALSE, entries |-> << >>]

Record(entries) == [present |-> TRUE, entries |-> entries]

\* JSON.stringify of a record of strings.
stringify(entries) ==
    << "{" >>
    \o join([i \in 1..Len(entries) |->
                << "\"" >> \o entries[i].name \o << "\"", ":", "\"" >>
                \o entries[i].value \o << "\"" >>],
            << "," >>)
    \o << "}" >>

RECURSIVE spread(_, _)
\* { ...headers, ...extra }: a key of extra replaces the value of the same key
\* and keeps its place, a new key is added at the end.
spread(headers, extra) ==
    IF Len(extra) = 0 THEN headers
    ELSE spread(
            IF \E i \in 1..Len(headers) : headers[i].name = extra[1].name
            THEN [i \in 1..Len(headers) |->
                    IF headers[i].name = extra[1].name THEN extra[1] ELSE headers[i]]
            ELSE Append(headers, extra[1]),
            Tail(extra))

\* signal: AbortSignal.timeout(30_000)
CALL_TIMEOUT_MS == 30000

\* (First a variant that sends the body with every method.)
requestBodyAnyMethod(method, body) ==
    IF body.present THEN Text(stringify(body.entries)) ELSE Absent

\* body && ["POST", "PUT", "PATCH"].includes(method) ? JSON.stringify(body) : undefined
requestBody(method, body) ==
    IF body.present /\ method \in { "POST", "PUT", "PATCH" }
    THEN Text(stringify(body.entries)) ELSE Absent

\* What call_api hands to fetch for a registered service: the url is
\* `${baseUrl}${path}`, kept as its two parts.
callApiRequest(service, method, path, body, extraHeaders) ==
    [url |-> << urlOf(service), path >>,
     method |-> method,
     headers |-> spread(<< [name |-> "Content-Type", value |-> "application/json"] >>,
                        extraHeaders.entries),
     body |-> requestBody(method, body),
     timeout |-> CALL_TIMEOUT_MS]

\* z.enum(["GET", "POST", "PUT", "PATCH", "DELETE"])
Methods == { "GET", "POST", "PUT", "PATCH", "DELETE" }

CallPaths == { << "/", "v", "1" >>, << >> }

\* The body argument: none, the empty record, or a record of two fields.
CallBodies ==
    { NoRecord, Record(<< >>),
      Record(<< [name |-> << "n" >>, value |-> << "x" >>],
                [name |-> << "u" >>, value |-> << >>] >>) }

\* The headers argument: none, a new header, or another Content-Type.
CallHeaders ==
    { NoRecord, Record(<< [name |-> "X-Id", value |-> "7"] >>),
      Record(<< [name |-> "Content-Type", value |-> "text/plain"] >>) }

NoRequest ==
    [url |-> << >>, method |-> "none", headers |-> << >>, body |-> Absent,
     timeout |-> 0]

CallProbes ==
    { [fn |-> "call_api", service |-> sv, method |-> me, path |-> pa,
       body |-> bo, headers |-> he, done |-> FALSE, out |-> NoRequest] :
      sv \in ServiceNames, me \in Methods, pa \in CallPaths,
      bo \in CallBodies, he \in CallHeaders }

InitCall ==
    /\ InitRegistry
    /\ InitBridge
    /\ probe \in CallProbes

\* call_api builds its request.
CallApi ==
    /\ probe.fn = "call_api"
    /\ ~probe.done
    /\ probe' = [probe EXCEPT
                    !.out = callApiRequest(probe.service, probe.method, probe.path,
                                           probe.body, probe.headers),
                    !.done = TRUE]
    /\ UNCHANGED << now, specsCache, reqs, arrivals, bridgeVars >>

NextCall == CallApi

SpecCall == InitCall /\ [][NextCall]_vars

\* ---------------------------------------------------------------- properties

\* Request r calls fetchSpec for service s in this step.
Calls(r, s) ==
    /\ reqs[r].pc = "idle"
    /\ reqs'[r].pc = "waiting"
    /\ reqs'[r].tasks[s].st # "none"

\* The fetch of request r for service s settles in this step.
Settles(r, s) ==
    /\ reqs[r].tasks[s].st = "fetching"
    /\ reqs'[r].tasks[s].st = "done"

\* The handler of request r has every result it awaits: what it sends is
\* responseOf(reqs[r]).
Ready(r) ==
    /\ reqs[r].pc = "waiting"
    /\ \A s \in ServiceNames : reqs[r].tasks[s].st # "fetching"

\* The position of a service in Object.entries(SERVICES).
DirectoryIndex(s) == CHOOSE i \in 1..Len(SERVICES) : SERVICES[i].name = s

\* C1: a getSpec call made while specsCache holds an entry for the service
\* with now - fetchedAt < TTL issues no fetch, returns exactly that entry (an
\* error entry like a document entry), and leaves specsCache unchanged.
C1_FreshEntryAnswers ==
    [][\A r \in ReqIds, s \in ServiceNames :
          ( /\ Calls(r, s)
            /\ reqs'[r].kind # "refresh"
            /\ s \in DOMAIN specsCache
            /\ now - specsCache[s].fetchedAt < CACHE_TTL_MS )
          => /\ reqs'[r].tasks[s].st = "done"
             /\ reqs'[r].tasks[s].src = "cache"
             /\ reqs'[r].tasks[s].result = specsCache[s]
             /\ specsCache' = specsCache]_vars

\* A call was answered from the cache with an error entry younger than the TTL.
C1_Witness ==
    \E r \in ReqIds, s \in ServiceNames :
        /\ reqs[r].kind = "openapi"
        /\ reqs[r].tasks[s].src = "cache"
        /\ reqs[r].tasks[s].result.error # Undefined
        /\ reqs[r].tasks[s].result = specsCache[s]

\* C2: the getSpec that follows the invalidation of POST /refresh/:service
\* (for a registered service) issues one fetch, whatever the age of the entry
\* that was cached before.
C2_RefreshFetches ==
    \A r \in ReqIds :
        (reqs[r].kind = "refresh" /\ reqs[r].arg \in ServiceNames)
        => /\ reqs[r].tasks[reqs[r].arg].src = "fetch"
           /\ reqs[r].tasks[reqs[r].arg].st \in { "fetching", "done" }
           /\ \A s \in ServiceNames \ { reqs[r].arg } : reqs[r].tasks[s].st = "none"

\* A refresh that found a fresh entry is waiting for its fetch.
C2_Witness ==
    \E r \in ReqIds :
        /\ reqs[r].kind = "refresh"
        /\ reqs[r].hadFresh
        /\ reqs[r].arg \in ServiceNames
        /\ reqs[r].tasks[reqs[r].arg].st = "fetching"

\* C3: getSpec answers from the cache only with an entry younger than the
\* TTL; when the entry has reached the TTL or there is none, it issues a fetch,
\* and what it returns is what that fetch produced, stored at its completion.
C3_ExpiredEntryRefetched ==
    [][\A r \in ReqIds, s \in ServiceNames :
          /\ ( Calls(r, s) /\ reqs'[r].kind # "refresh" )
             => IF s \in DOMAIN specsCache
                   /\ now - specsCache[s].fetchedAt < CACHE_TTL_MS
                THEN reqs'[r].tasks[s].src = "cache"
                ELSE /\ reqs'[r].tasks[s].st = "fetching"
                     /\ reqs'[r].tasks[s].src = "fetch"
          /\ Settles(r, s)
             => /\ reqs'[r].tasks[s].src = "fetch"
                /\ reqs'[r].tasks[s].result = specsCache'[s]
                /\ reqs'[r].tasks[s].result.fetchedAt = now
                /\ (reqs'[r].tasks[s].outcome = "ok")
                       = (reqs'[r].tasks[s].result.spec = RemoteDoc(s))]_vars

\* A call found an entry exactly TTL old and is fetching.
C3_Witness ==
    \E r \in ReqIds, s \in ServiceNames :
        /\ reqs[r].kind = "openapi"
        /\ reqs[r].tasks[s].st = "fetching"
        /\ reqs[r].tasks[s].had = "expired"
        /\ s \in DOMAIN specsCache
        /\ now - specsCache[s].fetchedAt = CACHE_TTL_MS

\* C4: every entry of specsCache has exactly one of document and error.
C4_ExactlyOnePopulated ==
    \A s \in DOMAIN specsCache :
        (specsCache[s].spec # Null) # (specsCache[s].error # Undefined)

\* C5: a fetch that ends in a non-success status or in a timeout or network
\* failure returns to its caller an entry without document, with the failure's
\* message as error and the completion time as fetchedAt, and stores it.
C5_FailureIsRecorded ==
    [][\A r \in ReqIds, s \in ServiceNames :
          ( Settles(r, s) /\ reqs'[r].tasks[s].outcome \in { "http500", "timeout" } )
          => /\ reqs'[r].pc = "waiting"
             /\ reqs'[r].tasks[s].result.spec = Null
             /\ reqs'[r].tasks[s].result.error =
                   ( IF reqs'[r].tasks[s].outcome = "http500"
                     THEN "HTTP 500"
                     ELSE "The operation was aborted due to timeout" )
             /\ reqs'[r].tasks[s].result.fetchedAt = now
             /\ s \in DOMAIN specsCache'
             /\ specsCache'[s] = reqs'[r].tasks[s].result]_vars

\* A fetch timed out after time had passed, and its entry is the cached one.
C5_Witness ==
    \E r \in ReqIds, s \in ServiceNames :
        /\ reqs[r].tasks[s].st = "done"
        /\ reqs[r].tasks[s].outcome = "timeout"
        /\ reqs[r].tasks[s].result.fetchedAt = now
        /\ now > 0
        /\ specsCache[s] = reqs[r].tasks[s].result

\* C6: the services list of GET /llm-context and get_all_endpoints has one
\* entry per entry of SERVICES, in the order of SERVICES, whatever the order in
\* which the fetches settled.
C6_AggregateInDirectoryOrder ==
    \A r \in ReqIds :
        (Ready(r) /\ reqs[r].kind = "aggregate")
        => LET services == responseOf(reqs[r]).body.services
           IN  /\ Len(services) = Len(SERVICES)
               /\ \A i \in 1..Len(SERVICES) :
                     /\ services[i].service = SERVICES[i].name
                     /\ services[i].baseUrl = SERVICES[i].url

\* An aggregation is ready whose fetches settled in the reverse of directory order.
C6_Witness ==
    \E r \in ReqIds :
        /\ Ready(r)
        /\ reqs[r].kind = "aggregate"
        /\ Len(reqs[r].order) = Len(SERVICES)
        /\ \A i \in 1..Len(SERVICES) :
              /\ reqs[r].order[i] = SERVICES[Len(SERVICES) + 1 - i].name
              /\ reqs[r].tasks[SERVICES[i].name].src = "fetch"

\* The endpoints (method, path) that the document of a service lists.
ExpectedEndpoints(s) ==
    IF s = "svc-a"
    THEN << << << "G", "E", "T" >>, << "/", "c", "a", "m", "p" >> >>,
            << << "P", "O", "S", "T" >>, << "/", "c", "a", "m", "p" >> >>,
            << << "D", "E", "L", "E", "T", "E" >>, << "/", "u", "s", "e", "r" >> >> >>
    ELSE << << << "P", "U", "T" >>, << "/", "b", "/", "C", "a", "m", "p" >> >>,
            << << "P", "A", "T", "C", "H" >>, << "/", "b", "/", "x" >> >> >>

\* C7: when a fetch of an aggregation failed, the result still has an entry
\* for every service; the failed service's entry has no endpoints and carries
\* the error, and the entry of a service whose fetch succeeded lists that
\* service's endpoints and carries no error.
C7_FailureIsIsolated ==
    \A r \in ReqIds :
        (Ready(r) /\ reqs[r].kind = "aggregate")
        => LET services == responseOf(reqs[r]).body.services
           IN  /\ Len(services) = Len(SERVICES)
               /\ \A i \in 1..Len(SERVICES) :
                     LET result == reqs[r].tasks[SERVICES[i].name].result
                     IN  /\ result.error # Undefined
                            => /\ services[i].endpoints = << >>
                               /\ services[i].error = result.error
                               /\ services[i].error # Undefined
                         /\ (result.error = Undefined /\ result.spec # Null)
                            => /\ services[i].error = Undefined
                               /\ [k \in 1..Len(services[i].endpoints) |->
                                     << services[i].endpoints[k].method,
                                        services[i].endpoints[k].path >>]
                                  = ExpectedEndpoints(SERVICES[i].name)

\* An aggregation is ready in which one fetch failed and another succeeded.
C7_Witness ==
    \E r \in ReqIds, s1, s2 \in ServiceNames :
        /\ Ready(r)
        /\ reqs[r].kind = "aggregate"
        /\ reqs[r].tasks[s1].outcome = "http500"
        /\ reqs[r].tasks[s2].outcome = "ok"

C9_MatchesInDirectoryOrder ==
    \A r \in ReqIds :
        (Ready(r) /\ reqs[r].kind = "search")
        => LET matches == responseOf(reqs[r]).body.matches
           IN  \A i, j \in 1..Len(matches) :
                  i < j => DirectoryIndex(matches[i].service)
                              <= DirectoryIndex(matches[j].service)

\* The matches (method, path) that the document of a service holds for "camp".
ExpectedMatches(s) ==
    IF s = "svc-a"
    THEN << << << "G", "E", "T" >>, << "/", "c", "a", "m", "p" >> >>,
            << << "P", "O", "S", "T" >>, << "/", "c", "a", "m", "p" >> >>,
            << << "D", "E", "L", "E", "T", "E" >>, << "/", "u", "s", "e", "r" >> >> >>
    ELSE << << << "P", "U", "T" >>, << "/", "b", "/", "C", "a", "m", "p" >> >> >>

\* C10: search_endpoints returns no match of a service whose fetch failed and
\* no error for it, and it returns the matches of every service whose fetch
\* succeeded.
C10_FailedServiceSkipped ==
    \A r \in ReqIds :
        (Ready(r) /\ reqs[r].kind = "search")
        => LET body == responseOf(reqs[r]).body
           IN  /\ DOMAIN body = { "query", "matchCount", "matches" }
               /\ body.matchCount = Len(body.matches)
               /\ \A s \in ServiceNames :
                     LET result == reqs[r].tasks[s].result
                         own    == SelectSeq(body.matches, LAMBDA m : m.service = s)
                     IN  /\ result.error # Undefined => own = << >>
                         /\ (result.error = Undefined /\ result.spec # Null)
                            => [k \in 1..Len(own) |-> << own[k].method, own[k].path >>]
                               = ExpectedMatches(s)

\* A search is ready in which one fetch failed and another service matched.
C10_Witness ==
    \E r \in ReqIds, s1, s2 \in ServiceNames :
        /\ Ready(r)
        /\ reqs[r].kind = "search"
        /\ reqs[r].tasks[s1].outcome \in { "http500", "timeout" }
        /\ reqs[r].tasks[s2].outcome = "ok"
        /\ Len(reqs[r].matches) > 0

\* ------------------------------------------------- properties of the bridge

\* The call_api of slot m returns in this step.
CallReturns(m) == mcp[m].pc = "fetching" /\ mcp'[m].pc = "idle"

\* GET /mcp is answered in this step.
Attaches == arrivals' = arrivals + 1 /\ mcp' = mcp /\ sent'.op = "get"

\* C11: call_api never raises.  Whenever its request ends it returns a result:
\* after a transport failure (connection refused, timeout, a lost connection,
\* an unusable URL) the result is the object with the one field error, the
\* message of the failure.  The return changes nothing in the session table,
\* so the session it ran in takes further calls.
C11_CallApiReturnsError ==
    [][\A m \in McpIds : CallReturns(m) =>
          /\ sent'.op = "post" /\ sent'.sid = mcp[m].sid /\ sent'.status = 200
          /\ sent'.result # NoCallResult
          /\ sent'.outcome \in TransportFailures =>
                sent'.result =
                    [NoCallResult EXCEPT !.error = callErrorMessage(sent'.outcome)]
          /\ sessions' = sessions]_vars

\* A call has ended in a timeout, its session is still in the table, and a
\* further call of that session is under way.
C11_Witness ==
    /\ sent.outcome = "timeout"
    /\ sent.result.error = "The operation was aborted due to timeout"
    /\ sent.sid \in DOMAIN sessions
    /\ \E m \in McpIds : mcp[m].pc = "fetching" /\ mcp[m].sid = sent.sid

\* C12: a POST /mcp without a session id registers a session under an id that
\* is in the table afterwards, was not in it before, has been sent to no client
\* and is the id of no other request in progress; its response carries that id.
\* Two such requests therefore get different ids.
C12_FreshSessionIds ==
    [][\A m \in McpIds :
          /\ (mcp[m].pc = "idle" /\ mcp'[m].pc = "connecting"
                /\ mcp'[m].header = NoHeader) =>
                /\ mcp'[m].sid \notin DOMAIN sessions
                /\ mcp'[m].sid \notin known
                /\ \A m2 \in McpIds : mcp[m2].sid # mcp'[m].sid
                /\ DOMAIN sessions' = DOMAIN sessions \cup { mcp'[m].sid }
          /\ (mcp[m].pc = "connecting" /\ mcp'[m].pc = "idle"
                /\ mcp[m].header = NoHeader) =>
                /\ sent'.sid = mcp[m].sid
                /\ mcp[m].sid \in DOMAIN sessions']_vars

\* Two sessions are in the table, and the response to the request without a
\* session id that created the second one has been written.
C12_Witness ==
    /\ Cardinality(DOMAIN sessions) = 2
    /\ sent.op = "post" /\ sent.header = NoHeader
    /\ sent.sid \in DOMAIN sessions
    /\ \E other \in DOMAIN sessions : other # sent.sid /\ other < sent.sid

\* C13: GET /mcp with a session id that is not in the session table is answered
\* 404, and the step leaves the session table as it was and generates no id.
C13_AttachUnknownIsNotFound ==
    [][(Attaches /\ sent'.header # NoHeader /\ sent'.header \notin DOMAIN sessions) =>
          /\ sent'.status = 404
          /\ sessions' = sessions
          /\ uuids' = uuids]_vars

\* GET /mcp with a made-up id has been answered 404 while a session exists.
C13_Witness ==
    /\ sent.op = "get" /\ sent.header = ForgedId /\ sent.status = 404
    /\ DOMAIN sessions # {}

\* C14: when DELETE /mcp for a session in the table has awaited close(), the
\* id is out of the table; an id that has left the table never enters it again
\* (a session established later has another id); and GET /mcp with such an id
\* is answered 404.
C14_ClosedSessionIsGone ==
    [][/\ \A m \in McpIds : (mcp[m].pc = "closing" /\ mcp'[m].pc = "idle") =>
              mcp[m].sid \notin DOMAIN sessions'
       /\ \A id \in known : id \notin DOMAIN sessions => id \notin DOMAIN sessions'
       /\ (Attaches /\ sent'.header \in known \ DOMAIN sessions) =>
              sent'.status = 404]_vars

\* A session was established and closed, a new one was established after it,
\* and GET /mcp with the closed id has been answered 404.
C14_Witness ==
    /\ sent.op = "get" /\ sent.status = 404
    /\ sent.header \in known \ DOMAIN sessions
    /\ \E id \in DOMAIN sessions : id > sent.header

\* ------------------------------------------------ properties of the auth gate

\* The middleware has decided about the request.
Gated == probe.fn = "gate" /\ probe.out # "pending"

\* The request carries the secret: as its X-API-Key header, or as its
\* Authorization header, bare or after "Bearer ".
CarriesSecret ==
    \/ probe.xApiKey = Text(probe.apiKey.text)
    \/ probe.authorization = Text(probe.apiKey.text)
    \/ probe.authorization = Text(BearerPrefix \o probe.apiKey.text)

\* C15: with a secret configured, a request to a path other than /health and
\* /openapi.json that does not carry the secret is answered 401 and its
\* handler does not run, and a request to one of those two paths is passed on
\* whatever it carries; with no secret configured every request is passed on.
C15_GateRejectsWithoutSecret ==
    Gated =>
        IF truthy(probe.apiKey)
        THEN /\ (probe.path \notin { "/health", "/openapi.json" } /\ ~CarriesSecret)
                    => probe.out = "401"
             /\ probe.path \in { "/health", "/openapi.json" } => probe.out = "next"
        ELSE probe.out = "next"

\* C16: with a secret configured, a request whose X-API-Key header is the
\* secret, or whose Authorization header is "Bearer " and the secret, is passed
\* on, whatever its other header is.
C16_EitherHeaderAuthenticates ==
    (/\ Gated
     /\ truthy(probe.apiKey)
     /\ \/ probe.xApiKey = Text(probe.apiKey.text)
        \/ probe.authorization = Text(BearerPrefix \o probe.apiKey.text))
        => probe.out = "next"

\* ------------------------------------------------ properties of loadServices

\* C17: whatever the configuration, every entry loadServices returns has a URL
\* that begins with http:// or https://, and what it returns is what the two
\* configuration sources yield without the entries whose URL does not.
C17_OnlyUrlsWithProtocol ==
    (probe.fn = "loadServices" /\ probe.done) =>
        /\ \A i \in 1..Len(probe.out) : hasProtocol(probe.out[i].url)
        /\ probe.out = SelectSeq(collected(probe.build, probe.servicesEnv, probe.env),
                                 LAMBDA e : hasProtocol(e.url))

\* --------------------------------------------- properties of lookups by name

\* Request r, a GET /openapi/:service or a get_service_spec, starts in this step.
LooksUp(r) ==
    reqs[r].pc = "idle" /\ reqs'[r].kind \in { "openapi", "toolspec" }

\* C18: a GET /openapi/:service or a get_service_spec for a name that is not a
\* key of the directory calls fetchSpec for nothing, answers with the
\* not-found result that lists the names of the directory, and no step of the
\* request changes the spec cache.
C18_UnknownNameIsNotFound ==
    [][\A r \in ReqIds :
          /\ (LooksUp(r) /\ reqs'[r].arg \notin ServiceNames) =>
                /\ \A s \in TaskNames : reqs'[r].tasks[s].st = "none"
                /\ responseOf(reqs'[r]).body = notFound(reqs'[r].arg).body
          /\ (/\ reqs[r].kind \in { "openapi", "toolspec" }
              /\ reqs[r].arg \notin ServiceNames
              /\ reqs'[r].pc # reqs[r].pc \/ reqs'[r].tasks # reqs[r].tasks) =>
                specsCache' = specsCache]_vars

\* --------------------------------------------------- properties of summarize

\* summarize has been applied to the document of the probe.
Summarized == probe.fn = "summarize" /\ probe.done

\* The method and path of every key of the document's path entries that
\* passes keep, in the order of the document, the method in upper case.
KeysKept(doc, keep(_)) ==
    flat([i \in 1..Len(pathEntries(doc)) |->
        LET ms == SelectSeq(methodEntries(pathEntries(doc)[i]),
                            LAMBDA m : keep(m.method))
        IN  [j \in 1..Len(ms) |->
                [method |-> toUpperCase(ms[j].method),
                 path |-> pathEntries(doc)[i].path]]])

\* The method and path of every endpoint summarize has emitted.
KeysEmitted ==
    [i \in 1..Len(probe.out.endpoints) |->
        [method |-> probe.out.endpoints[i].method,
         path |-> probe.out.endpoints[i].path]]

\* C19: summarize returns a result for every document, whatever the shape of
\* its path table, path entries, method entries and parameters: it never raises.
C19_SummarizeIsTotal ==
    Summarized => ~probe.out.raised

\* C20: summarize emits an endpoint exactly for the keys of a path
\* entry that name GET, POST, PUT, PATCH or DELETE in whatever case, with the
\* method in upper case, and nothing for any other key.
C20_MethodsInAnyCase ==
    (Summarized /\ ~probe.out.raised) =>
        KeysEmitted =
            KeysKept(probe.doc,
                     LAMBDA method : toLowerCase(method) \in
                        { << "g", "e", "t" >>, << "p", "o", "s", "t" >>,
                          << "p", "u", "t" >>, << "p", "a", "t", "c", "h" >>,
                          << "d", "e", "l", "e", "t", "e" >> })

\* The details of every method entry of the document that the summarizer
\* keeps, in the order of the document.
DetailsKept(doc) ==
    flat([i \in 1..Len(pathEntries(doc)) |->
        LET ms == SelectSeq(methodEntries(pathEntries(doc)[i]),
                            LAMBDA m : m.method \in RecognizedMethods)
        IN  [j \in 1..Len(ms) |-> detailsOf(ms[j])]])

\* The parameters an operation declares: none when parameters is null.
Declared(details) ==
    IF "parametersIs" \in DOMAIN details THEN << >> ELSE details.parameters

\* C21: the params of every endpoint summarize has emitted are the declared
\* parameters whose location is not "header", in the declared order, each
\* with its name, its location, its required flag (false when none is
\* declared) and its declared type.
C21_ParamsAreDeclaredNonHeader ==
    (Summarized /\ ~probe.out.raised) =>
        /\ Len(probe.out.endpoints) = Len(DetailsKept(probe.doc))
        /\ \A i \in 1..Len(probe.out.endpoints) :
              LET declared == Declared(DetailsKept(probe.doc)[i])
                  kept == SelectSeq(declared, LAMBDA p : p.in # "header")
                  params == probe.out.endpoints[i].params
              IN  /\ Len(params) = Len(kept)
                  /\ \A k \in 1..Len(kept) :
                        /\ params[k].name = kept[k].name
                        /\ params[k].in = kept[k].in
                        /\ params[k].in # "header"
                        /\ params[k].type = kept[k].type
                        /\ params[k].required =
                              (IF kept[k].required = Undefined THEN FALSE
                               ELSE kept[k].required = "true")

\* An endpoint has been emitted for an operation that declares a header
\* parameter first and two others, one required and one without a flag.
C21_Witness ==
    /\ Summarized
    /\ ~probe.out.raised
    /\ \E i \in 1..Len(probe.out.endpoints) :
          /\ Len(DetailsKept(probe.doc)[i].parameters) = 3
          /\ DetailsKept(probe.doc)[i].parameters[1].in = "header"
          /\ Len(probe.out.endpoints[i].params) = 2
          /\ probe.out.endpoints[i].params[1].name = "limit"
          /\ probe.out.endpoints[i].params[1].required
          /\ ~probe.out.endpoints[i].params[2].required

\* ------------------------------------------------------ properties of search

\* search has been applied to the document and the query of the probe.
Searched == probe.fn = "search" /\ probe.done

\* The method entries of the document that name a recognized method, each
\* with its path, in the order of the document.
Operations(doc) ==
    flat([i \in 1..Len(pathEntries(doc)) |->
        LET ms == SelectSeq(methodEntries(pathEntries(doc)[i]),
                            LAMBDA m : m.method \in RecognizedMethods)
        IN  [j \in 1..Len(ms) |->
                [path |-> pathEntries(doc)[i].path, method |-> ms[j].method,
                 details |-> detailsOf(ms[j])]]])

\* The lowercased keyword occurs in the lowercased text made of the path, the
\* summary (or else the description) and the body field names, each
\* separated from the next by one space.
Contains(op, keyword) ==
    LET summary == IF op.details.summary # << >> THEN op.details.summary
                   ELSE op.details.description
        text == op.path \o << " " >> \o summary \o << " " >>
                \o join(op.details.bodyProps, << " " >>)
    IN  includes(toLowerCase(text), toLowerCase(keyword))

C23_RefreshAllFetchesEveryService ==
    [][\A r \in ReqIds :
          /\ (reqs[r].pc = "idle" /\ reqs'[r].kind = "refreshAll")
             => /\ specsCache' = << >>
                /\ \A s \in ServiceNames :
                      /\ reqs'[r].tasks[s].st = "fetching"
                      /\ reqs'[r].tasks[s].src = "fetch"
          /\ (reqs[r].kind = "refreshAll" /\ reqs'[r].pc = "idle")
             => LET services == responseOf(reqs[r]).body.services
                IN  /\ Len(services) = Len(SERVICES)
                    /\ \A i \in 1..Len(SERVICES) :
                          /\ services[i].name = SERVICES[i].name
                          /\ reqs[r].tasks[SERVICES[i].name].outcome # "none"
                          /\ services[i].error =
                                (IF reqs[r].tasks[SERVICES[i].name].outcome = "ok"
                                 THEN Null
                                 ELSE reqs[r].tasks[SERVICES[i].name].result.error)
                          /\ services[i].error = Null
                             <=> reqs[r].tasks[SERVICES[i].name].result.error = Undefined]_vars

\* A POST /refresh that found a fresh entry has every result: the fetch of
\* the last service in the directory settled first and failed, the other
\* delivered the document.
C23_Witness ==
    \E r \in ReqIds :
        /\ reqs[r].kind = "refreshAll"
        /\ Ready(r)
        /\ reqs[r].hadFresh
        /\ reqs[r].order = << "svc-b", "svc-a" >>
        /\ reqs[r].tasks["svc-b"].outcome = "http500"
        /\ reqs[r].tasks["svc-a"].outcome = "ok"
        /\ specsCache["svc-a"].spec = RemoteDoc("svc-a")

\* ---------------------------------------- properties of concurrent fetchSpec

\* A POST /refresh/:service for service s is waiting for its fetch or to respond.
Refreshing(s) ==
    \E r \in ReqIds :
        reqs[r].kind = "refresh" /\ reqs[r].arg = s /\ reqs[r].pc = "waiting"

\* C24: once POST /refresh/:service has responded for a registered service,
\* the cache entry of the service comes from a fetch issued at or after the
\* refresh request: a fetch of the service that was in flight when the
\* refresh arrived does not replace the entry when it settles after the
\* refresh has responded.
C24_RefreshedEntryStays ==
    [][\A r \in ReqIds, s \in ServiceNames :
          ( /\ Settles(r, s)
            /\ reqs[r].tasks[s].overtaken
            /\ ~Refreshing(s) )
          => /\ s \in DOMAIN specsCache
             /\ specsCache'[s] = specsCache[s]]_vars

\* C25: when two getSpec calls for the same service overlap, the later call
\* issues its own fetch although the earlier fetch is in flight; the fetch
\* of each settles into that call's own result, leaving the other call's
\* result alone; and every settling fetch writes the cache entry, so that
\* the entry is the one written by the fetch that settled last.
C25_OverlappingCallsEachFetch ==
    [][\A r, r2 \in ReqIds, s \in ServiceNames :
          r # r2 =>
            /\ ( /\ Calls(r, s)
                 /\ reqs[r2].tasks[s].st = "fetching"
                 /\ ~( /\ s \in DOMAIN specsCache'
                       /\ now - specsCache'[s].fetchedAt < CACHE_TTL_MS ) )
               => /\ reqs'[r].tasks[s].st = "fetching"
                  /\ reqs'[r2].tasks[s].st = "fetching"
            /\ ( Settles(r, s) /\ reqs[r2].tasks[s].src = "fetch" )
               => LET own == reqs'[r].tasks[s]
                  IN  /\ own.result.fetchedAt = now
                      /\ own.outcome = "ok"
                         => /\ own.result.spec = RemoteDoc(s)
                            /\ own.result.error = Undefined
                      /\ own.outcome \in { "http500", "timeout" }
                         => /\ own.result.spec = Null
                            /\ own.result.error # Undefined
                      /\ reqs'[r2].tasks[s].result = reqs[r2].tasks[s].result
                      /\ reqs'[r2].tasks[s].st = reqs[r2].tasks[s].st
                      /\ specsCache'[s] = own.result]_vars

\* Two GET /openapi/:service for the same service both found nothing cached
\* and fetched; the first fetch failed, the second delivered the document
\* later, and the cache holds the second result.
C25_Witness ==
    \E r, r2 \in ReqIds, s \in ServiceNames :
        /\ r # r2
        /\ reqs[r].kind = "openapi" /\ reqs[r2].kind = "openapi"
        /\ reqs[r].tasks[s].st = "done" /\ reqs[r2].tasks[s].st = "done"
        /\ reqs[r].tasks[s].src = "fetch" /\ reqs[r2].tasks[s].src = "fetch"
        /\ reqs[r].tasks[s].had = "nothing" /\ reqs[r2].tasks[s].had = "nothing"
        /\ reqs[r].tasks[s].outcome = "http500"
        /\ reqs[r2].tasks[s].outcome = "ok"
        /\ reqs[r].tasks[s].result.fetchedAt < reqs[r2].tasks[s].result.fetchedAt
        /\ specsCache[s] = reqs[r2].tasks[s].result

\* C26: when a fetch delivers the document of a service whose cache entry
\* records the failure of an earlier fetch (the entry has expired, or the
\* earlier fetch overlapped), or after POST /refresh/:service has removed the
\* entry, the cache entry afterwards holds the fetched document, the time of
\* this fetch and no error.
C26_SuccessClearsError ==
    [][\A r \in ReqIds, s \in ServiceNames :
          ( /\ Settles(r, s)
            /\ reqs'[r].tasks[s].outcome = "ok"
            /\ \/ s \in DOMAIN specsCache /\ specsCache[s].error # Undefined
               \/ reqs[r].kind = "refresh" )
          => /\ specsCache'[s].spec = RemoteDoc(s)
             /\ specsCache'[s].error = Undefined
             /\ specsCache'[s].fetchedAt = now]_vars

\* A fetch failed; its entry expired; the next call fetched and received the
\* document, and the cache holds the document without an error.
C26_Witness ==
    \E r, r2 \in ReqIds, s \in ServiceNames :
        /\ r # r2
        /\ reqs[r].tasks[s].st = "done"
        /\ reqs[r].tasks[s].outcome \in { "http500", "timeout" }
        /\ reqs[r2].tasks[s].st = "done"
        /\ reqs[r2].tasks[s].had = "expired"
        /\ reqs[r2].tasks[s].outcome = "ok"
        /\ reqs[r].tasks[s].result.fetchedAt + CACHE_TTL_MS
              <= reqs[r2].tasks[s].result.fetchedAt
        /\ specsCache[s].spec = RemoteDoc(s)
        /\ specsCache[s].error = Undefined

\* C27: in the step in which an aggregation starts, before it waits for
\* anything, the fetch of every service without a cache entry younger than
\* the TTL is in flight; no fetch of the aggregation is issued in a later step.
C27_FetchesIssuedTogether ==
    [][\A r \in ReqIds, s \in ServiceNames :
          /\ ( /\ reqs[r].pc = "idle"
               /\ reqs'[r].kind = "aggregate"
               /\ ~( /\ s \in DOMAIN specsCache
                     /\ now - specsCache[s].fetchedAt < CACHE_TTL_MS ) )
             => reqs'[r].tasks[s].st = "fetching"
          /\ ( reqs[r].kind = "aggregate" /\ reqs[r].pc = "waiting" )
             => ( reqs'[r].tasks[s].st = "fetching"
                  => reqs[r].tasks[s].st = "fetching" )]_vars

\* An aggregation has the fetches of two services in flight and has received
\* no result yet.
C27_Witness ==
    \E r \in ReqIds, s1, s2 \in ServiceNames :
        /\ s1 # s2
        /\ reqs[r].kind = "aggregate"
        /\ reqs[r].pc = "waiting"
        /\ reqs[r].order = << >>
        /\ reqs[r].tasks[s1].st = "fetching"
        /\ reqs[r].tasks[s2].st = "fetching"

\* ------------------------------------------ properties of malformed documents

\* C28: an aggregation or a search one of whose services has delivered a
\* malformed document still returns its result, and the summary or the
\* matches of every service that delivered its document are in it as they
\* would be without the malformed one.
C28_MalformedIsIsolated ==
    \A r \in ReqIds :
        ( /\ Ready(r)
          /\ reqs[r].kind \in { "aggregate", "search" }
          /\ \E s \in ServiceNames : reqs[r].tasks[s].outcome = "malformed" )
        => IF responseOf(reqs[r]).status # 200 THEN FALSE
           ELSE LET body == responseOf(reqs[r]).body
                IN  \A i \in 1..Len(SERVICES) :
                       reqs[r].tasks[SERVICES[i].name].outcome = "ok"
                       => IF reqs[r].kind = "aggregate"
                          THEN [k \in 1..Len(body.services[i].endpoints) |->
                                  << body.services[i].endpoints[k].method,
                                     body.services[i].endpoints[k].path >>]
                               = ExpectedEndpoints(SERVICES[i].name)
                          ELSE LET own == SelectSeq(body.matches, LAMBDA m :
                                              m.service = SERVICES[i].name)
                               IN  [k \in 1..Len(own) |->
                                      << own[k].method, own[k].path >>]
                                   = ExpectedMatches(SERVICES[i].name)

\* --------------------------------------------- properties of POST /mcp again

\* C29: a POST /mcp that presents the id of an established session (in the
\* table, its transport initialized) is handled under that id: no id is
\* generated, the session table is left as it is, and the response or the
\* pending tool call belongs to the session presented.
C29_EstablishedSessionIsReused ==
    [][\A m \in McpIds, header \in DOMAIN sessions, rpc \in Bodies :
          ( sessions[header].initialized /\ PostMcp(m, header, rpc) )
          => /\ uuids' = uuids
             /\ sessions' = sessions
             /\ known' = known
             /\ \/ /\ mcp' = mcp
                   /\ sent'.op = "post"
                   /\ sent'.header = header
                   /\ sent'.sid = header
                \/ /\ sent' = sent
                   /\ mcp'[m].pc = "fetching"
                   /\ mcp'[m].sid = header]_vars

\* The tool call of a POST that presented the id of the one session ever
\* created has been answered under that id, and the table holds that session
\* alone.
C29_Witness ==
    /\ uuids = 1
    /\ DOMAIN sessions = { 1 }
    /\ sessions[1].initialized
    /\ sent.op = "post"
    /\ sent.header = 1
    /\ sent.sid = 1
    /\ sent.status = 200
    /\ sent.result.status # Undefined

\* ---------------------------------------------------- properties of call_api

\* call_api has built the request for the arguments of the probe.
Requested == probe.fn = "call_api" /\ probe.done

\* C30: the request call_api sends carries a body exactly when a body was
\* supplied and the method is POST, PUT or PATCH, and the body is then the
\* JSON text of the record supplied; with GET and DELETE it carries none,
\* whether or not one was supplied.
C30_BodyOnlyWithWritingMethods ==
    Requested =>
        /\ probe.out.method = probe.method
        /\ probe.out.body.present
           <=> ( probe.body.present
                 /\ probe.method \in { "POST", "PUT", "PATCH" } )
        /\ probe.method \in { "GET", "DELETE" } => ~probe.out.body.present
        /\ probe.out.body.present
           => LET text == probe.out.body.text
              IN  /\ text[1] = "{"
                  /\ text[Len(text)] = "}"
                  /\ probe.body.entries = << >> => text = << "{", "}" >>
                  /\ \A i \in 1..Len(probe.body.entries) :
                        includes(text,
                                 << "\"" >> \o probe.body.entries[i].name
                                 \o << "\"", ":", "\"" >>
                                 \o probe.body.entries[i].value \o << "\"" >>)

\* call_api has built a DELETE request without a body although one was supplied.
C30_Witness ==
    /\ Requested
    /\ probe.method = "DELETE"
    /\ probe.body.present
    /\ probe.body.entries # << >>
    /\ ~probe.out.body.present

\* --------------------------------------- properties of loadServices, the names

\* C31: every name in the directory loadServices returns is lowercase and
\* hyphen-normalized: it holds no uppercase letter and no underscore,
\* whether it came from the SERVICES variable or from a variable of its own.
C31_NamesAreNormalized ==
    (probe.fn = "loadServices" /\ probe.done) =>
        \A i \in 1..Len(probe.out) :
            \A k \in 1..Len(probe.out[i].name) :
                /\ probe.out[i].name[k] # "_"
                /\ probe.out[i].name[k] \notin
                      { "A", "B", "C", "D", "E", "F", "G", "H", "I", "J", "K", "L", "M",
                        "N", "O", "P", "Q", "R", "S", "T", "U", "V", "W", "X", "Y", "Z" }

\* ------------------------------------------- properties of the session table

\* C32: a session leaves the session table only in the step in which a
\* DELETE /mcp for its id has awaited close(); no POST, GET, tool call that
\* failed or tick of the clock removes it.
C32_SessionStaysUntilClosed ==
    [][\A id \in DOMAIN sessions :
          id \notin DOMAIN sessions'
          => \E m \in McpIds :
                /\ mcp[m].op = "delete"
                /\ mcp[m].pc = "closing"
                /\ mcp[m].sid = id
                /\ mcp'[m].pc = "idle"]_vars

\* Time has passed since a session was established, a tool call of it has
\* failed, another session has been established after it, and the first is
\* still in the table.
C32_Witness ==
    /\ now > 0
    /\ sent.op = "post"
    /\ sent.result.error # Undefined
    /\ sent.outcome \in { "refused", "timeout", "bodyAborted" }
    /\ sent.sid \in DOMAIN sessions
    /\ sessions[sent.sid].initialized
    /\ \E id \in DOMAIN sessions : id > sent.sid

\* --------------------------------------------- properties of the cache entries

\* C33: the cache entry of a service changes only in the step in which a
\* fetch for that service settles, and then to the result of that fetch,
\* stamped with the time of the step; it leaves the cache only in the step in
\* which POST /refresh/:service for the service or POST /refresh arrives.  A
\* fetch that fails stores an entry, and a tick of the clock changes nothing.
C33_EntryReplacedOrInvalidated ==
    [][/\ \A s \in DOMAIN specsCache :
            /\ s \notin DOMAIN specsCache'
               => \E r \in ReqIds :
                     /\ reqs[r].pc = "idle"
                     /\ \/ reqs'[r].kind = "refresh" /\ reqs'[r].arg = s
                        \/ reqs'[r].kind = "refreshAll"
            /\ ( s \in DOMAIN specsCache' /\ specsCache'[s] # specsCache[s] )
               => \E r \in ReqIds :
                     /\ Settles(r, s)
                     /\ specsCache'[s] = reqs'[r].tasks[s].result
                     /\ specsCache'[s].fetchedAt = now
                     /\ specsCache'[s].fetchedAt >= specsCache[s].fetchedAt
       /\ \A r \in ReqIds, s \in ServiceNames :
            Settles(r, s) => s \in DOMAIN specsCache'
       /\ now' # now => specsCache' = specsCache]_vars

\* The entry of a service records a failure, has reached the TTL, and is
\* still in the cache while another request is being served.
C33_Witness ==
    \E s \in DOMAIN specsCache :
        /\ specsCache[s].error # Undefined
        /\ now - specsCache[s].fetchedAt >= CACHE_TTL_MS
        /\ \E r \in ReqIds : reqs[r].pc = "waiting" /\ reqs[r].tasks[s].st = "none"

\* C34: every key of the spec cache is the name of a service of the
\* directory.
C34_CacheKeysAreServices ==
    DOMAIN specsCache \subseteq ServiceNames

\* The entries of every service but s are what they were.
OthersKept(s) ==
    \A k \in (DOMAIN specsCache \cup DOMAIN specsCache') \ { s } :
        /\ k \in DOMAIN specsCache
        /\ k \in DOMAIN specsCache'
        /\ specsCache'[k] = specsCache[k]

\* C35: the step in which GET /openapi/:service or POST /refresh/:service
\* arrives for a service, and the step in which a fetch for a service settles,
\* leave the cache entry of every other service as it was; a step of the
\* bridge (a POST /mcp arriving, a session connected, call_api's fetch
\* settled, list_services answered) leaves the whole cache as it was.
C35_OtherEntriesUntouched ==
    [][/\ \A r \in ReqIds, s \in ServiceNames :
            ( /\ reqs[r].pc = "idle"
              /\ reqs'[r].kind \in { "openapi", "refresh" }
              /\ reqs'[r].arg = s )
            => OthersKept(s)
       /\ \A r \in ReqIds, s \in ServiceNames : Settles(r, s) => OthersKept(s)
       /\ ( mcp' # mcp \/ sessions' # sessions
             \/ ( arrivals' # arrivals /\ reqs' = reqs ) )
          => specsCache' = specsCache]_vars

\* POST /refresh/:service for the first service has been processed while the
\* second service is cached, and list_services has been answered.
C35_Witness ==
    /\ SERVICES[2].name \in DOMAIN specsCache
    /\ \E r \in ReqIds : reqs[r].kind = "refresh" /\ reqs[r].arg = SERVICES[1].name
    /\ sent.tool = "list_services"
    /\ Len(sent.result.data) = Len(SERVICES)

\* --------------------------------------- properties of the session table keys

\* C36: a POST /mcp that presents an id that is not in the session table
\* leaves that id out of the table and adds one session, under the id
\* generated in that step, which differs from the id presented; and every key
\* of the table is an id the bridge has generated.
C36_PresentedIdIsNeverRegistered ==
    [][/\ \A m \in McpIds :
            ( /\ mcp[m].pc = "idle"
              /\ mcp'[m].op = "post"
              /\ mcp'[m].header # NoHeader
              /\ mcp'[m].header \notin DOMAIN sessions )
            => /\ mcp'[m].header \notin DOMAIN sessions'
               /\ uuids' = uuids + 1
               /\ mcp'[m].sid = uuids'
               /\ mcp'[m].sid # mcp'[m].header
               /\ DOMAIN sessions' = DOMAIN sessions \cup { mcp'[m].sid }
       /\ DOMAIN sessions' \subseteq 1..uuids']_vars

\* A POST /mcp that presented the id of a session closed before has been
\* answered with the id of another session, which is in the table.
C36_Witness ==
    /\ sent.op = "post"
    /\ sent.header \in known \ DOMAIN sessions
    /\ sent.sid # sent.header
    /\ sent.sid \in DOMAIN sessions

\* C37: a DELETE /mcp without an id, or with an id that is not in the session
\* table, is answered 200 in the step in which it arrives and leaves the table
\* and the requests in progress as they were.  When a DELETE /mcp that found
\* its session has awaited close(), it is answered 200 and the table is the
\* table before without that id: the same table if another DELETE for the id
\* took the session out in the meantime.
C37_CloseIsIdempotent ==
    [][/\ \A m \in McpIds, header \in Headers(known) :
            ( DeleteMcp(m, header) /\ header \notin DOMAIN sessions )
            => /\ sent'.op = "delete"
               /\ sent'.header = header
               /\ sent'.status = 200
               /\ sessions' = sessions
               /\ mcp' = mcp
       /\ \A m \in McpIds :
            ( mcp[m].pc = "closing" /\ mcp'[m].pc = "idle" )
            => /\ sent'.op = "delete"
               /\ sent'.status = 200
               /\ DOMAIN sessions' = DOMAIN sessions \ { mcp[m].sid }
               /\ \A k \in DOMAIN sessions' : sessions'[k] = sessions[k]
               /\ mcp[m].sid \notin DOMAIN sessions => sessions' = sessions]_vars

\* Two DELETE /mcp found the same session; one has been answered 200 and the
\* session is out of the table while the other still awaits close(), and
\* another session is in the table.
C37_Witness ==
    /\ sent.op = "delete" /\ sent.status = 200
    /\ \E m \in McpIds :
          /\ mcp[m].pc = "closing"
          /\ mcp[m].sid = sent.header
          /\ mcp[m].sid \notin DOMAIN sessions
    /\ DOMAIN sessions # { }

====
